---- MODULE Spec2Model ----
(***************************************************************************)
(* Model of the silent-loss detector: the data loader (data_loader.py),    *)
(* the calculation pipeline (main_callbacks.py) and the operational state  *)
(* classifier (operational_state.py).                                      *)
(*                                                                         *)
(* Encoding.  A dataset (pandas DataFrame) is a record                     *)
(*   rows        the rows in frame order, each a record of its cells       *)
(*   ts_dtype    dtype of the TimeStamp column: "datetime", "object"       *)
(*               (strings that parse) or "unparseable" (strings that do    *)
(*               not)                                                      *)
(*   met_col     the column met_WindSpeedRot_mean_38 is present            *)
(*   derived     the columns Date and Hour are present                     *)
(*   result_cols the five result columns are present                       *)
(* A row carries its index label (idx).  Numbers are integers: power in    *)
(* kW, durations in seconds, wind speeds in m/s, timestamps in minutes.    *)
(* A missing numeric cell is NaN; a missing turbine id is NoId; a missing  *)
(* result cell is the string "NaN".  Turbine ids are strings, written as    *)
(* numbers whose order is the order of the strings:                        *)
(*   -1          "B": an id without a digit                                *)
(*   1 .. 9      "T1" .. "T9"                                              *)
(*   10a + b     "U<a>_<b>" (a in 1..9, b in 0..9): ids with two runs of   *)
(*               digits, the first a and the last b                        *)
(* A reason string is a record of its template (kind) and the numbers it   *)
(* embeds; a reference mean is kept as the pair (sum, count).              *)
(***************************************************************************)
EXTENDS Integers, Sequences, FiniteSets, TLC

\* ---------------------------------------------------------------- config.py
PRODUCTION_THRESHOLD_KW == 0
CUT_IN_WIND_SPEED == 4
ALARM_THRESHOLD_SECONDS == 0
CURTAILMENT_THRESHOLD_SECONDS == 0
WIND_SPEED_DEVIATION_THRESHOLD == 2
MAX_ADJACENT_TURBINES == 5
ADJACENCY_DISTANCE_THRESHOLD == 300
\* operational_state.py: look-back window and its two sub-thresholds (minutes)
LOOKBACK_MINUTES == 30
POST_LOW_WIND_MINUTES == 20
POST_ALARM_MINUTES == 15

\* The missing-value marker of a numeric or timestamp cell (NaN / NaT).
NaN == -1000
\* The missing-value marker of a StationId cell.
NoId == 0
\* The outcome of a call that ended in an exception, and of one that returned.
Raised == [raised |-> TRUE]
Returned(v) == [raised |-> FALSE, value |-> v]
\* The value None of the loader's data attribute.
None == [none |-> TRUE]

\* Comparisons with a missing value are False, as in pandas and numpy.
\* A comparison that a missing value passes.
GtOrMissing(a, b) == a = NaN \/ (b # NaN /\ a > b)

Gt(a, b) == a # NaN /\ b # NaN /\ a > b
\* A comparison that equal values pass.
LtOrSame(a, b) == a # NaN /\ b # NaN /\ a <= b

Lt(a, b) == a # NaN /\ b # NaN /\ a < b
Ge(a, b) == a # NaN /\ b # NaN /\ a >= b

Abs(x) == IF x < 0 THEN -x ELSE x
Min(a, b) == IF a < b THEN a ELSE b

\* The longest prefix of s of length at most n (s[:n]).
Take(s, n) == SubSeq(s, 1, Min(n, Len(s)))

RECURSIVE SumSeq(_)
SumSeq(s) == IF s = <<>> THEN 0 ELSE Head(s) + SumSeq(Tail(s))

\* Sort keys are tuples of numbers, compared position by position.
KeyLess(a, b) ==
    \E k \in 1..Len(a) : a[k] < b[k] /\ \A j \in 1..(k - 1) : a[j] = b[j]

\* A stable sort of s by the keys (keys[i] is the key of s[i]): the element
\* at position i goes after the elements of smaller key and after the
\* elements of equal key before it.
StableSort(s, keys) ==
    LET n == Len(s)
        rank(i) == 1 + Cardinality({j \in 1..n :
                        KeyLess(keys[j], keys[i]) \/ (~KeyLess(keys[i], keys[j]) /\ j < i)})
    IN [k \in 1..n |-> s[CHOOSE i \in 1..n : rank(i) = k]]

\* The column of the frame's rows as a sequence (frame[name].tolist()).
Column(rows, name) == [i \in 1..Len(rows) |-> rows[i][name]]

\* The distinct values of s in order of first appearance (Series.unique()).
RECURSIVE Unique(_)
Unique(s) ==
    IF s = <<>> THEN <<>>
    ELSE LET Add(u, x) == IF \E i \in 1..Len(u) : u[i] = x THEN u ELSE Append(u, x)
         IN Add(Unique(SubSeq(s, 1, Len(s) - 1)), s[Len(s)])

\* ------------------------------------------------------------ the result table
\* config.py OPERATIONAL_STATES: category names and subcategory names.
Category(state) ==
    CASE state = "PRODUCING" -> "Producing"
      [] state = "NOT_PRODUCING_EXPLAINED" -> "Not Producing - Explained"
      [] state = "NOT_PRODUCING_VERIFICATION_PENDING" -> "Not Producing - Verification Pending"
      [] state = "NOT_PRODUCING_UNEXPECTED" -> "Not Producing - Unexpected"

Subcategory(key) ==
    CASE key = "PRODUCING" -> "Normal Operation"
      [] key = "ALARM_ACTIVE" -> "Alarm Active"
      [] key = "CURTAILMENT_ACTIVE" -> "Curtailment Active"
      [] key = "CONFIRMED_LOW_WIND" -> "Confirmed Low Wind"
      [] key = "STARTUP_POST_LOW_WIND" -> "Startup Sequence (Post-Low Wind)"
      [] key = "STARTUP_POST_ALARM" -> "Startup Sequence (Post-Alarm)"
      [] key = "SUSPECTED_LOW_WIND" -> "Suspected Low Wind"
      [] key = "STARTUP_UNCLEAR" -> "Startup Sequence (Trigger Unclear)"
      [] key = "SENSOR_ERROR_LOW" -> "Suspected Sensor Error (Low Reading)"
      [] key = "SENSOR_ERROR_ANOMALOUS" -> "Suspected Sensor Error (Anomalous Reading)"
      [] key = "MECHANICAL_CONTROL_ISSUE" -> "Suspected Mechanical/Control Issue"
      [] key = "UNKNOWN_NON_PRODUCTION" -> "Unknown Non-Production"

\* A reason string: its template and the numbers formatted into it.
Reason(kind, a, b, c) == [kind |-> kind, a |-> a, b |-> b, c |-> c]

\* The dictionary _classify_single_timestamp returns.
StateInfo(state, key, reason, producing) ==
    [state |-> state, category |-> Category(state), subcategory |-> Subcategory(key),
     reason |-> reason, is_producing |-> producing]

\* ------------------------------------------------------------- data_loader.py
\* A loader: [data, data_loaded, layout_data, layout_loaded].

\* sorted() of a list that holds the float nan beside strings raises TypeError.
SortedRaises(ids) ==
    /\ \E i \in 1..Len(ids) : ids[i] = NoId
    /\ \E i \in 1..Len(ids) : ids[i] # NoId

\* get_turbine_list: the sorted distinct turbine ids, [] when nothing is loaded.
get_turbine_list(loader) ==
    IF ~loader.data_loaded THEN Returned(<<>>)
    ELSE LET Sorted(ids) ==
                 IF SortedRaises(ids) THEN Raised
                 ELSE Returned(StableSort(ids, [i \in 1..Len(ids) |-> <<ids[i]>>]))
         IN Sorted(Unique(Column(loader.data.rows, "StationId")))

\* get_metmast_columns: the metmast wind speed columns of the loaded data.
get_metmast_columns(loader) ==
    IF ~loader.data_loaded THEN {}
    ELSE IF loader.data.met_col THEN {"met_WindSpeedRot_mean_38"} ELSE {}

\* re.search(r"(\d+)", id) finds a match: the id holds a digit.
HasDigits(id) == id > 0

\* int(re.search(r"(\d+)", id).group(1)): the first run of digits of the id.
StationNumber(id) == IF id < 10 THEN id ELSE id \div 10

\* The squared distance of two layout entries.
Distance2(p, q) == (p.X - q.X) * (p.X - q.X) + (p.Y - q.Y) * (p.Y - q.Y)

\* A layout branch that takes the first entries within the threshold in layout
\* order (head() in place of nsmallest()).
AdjacentByLayoutUnsorted(loader, station_id) ==
    LET lay == loader.layout_data
        IsTarget(e) == e.StationId = station_id
        target == SelectSeq(lay, IsTarget)[1]
        IsOther(e) == e.StationId # station_id
        Within(e) == Distance2(e, target)
                       <= ADJACENCY_DISTANCE_THRESHOLD * ADJACENCY_DISTANCE_THRESHOLD
    IN Column(Take(SelectSeq(SelectSeq(lay, IsOther), Within), MAX_ADJACENT_TURBINES),
              "StationId")

\* get_adjacent_turbines, the layout branch: the other layout entries within
\* the distance threshold, the closest first (ties in layout order), at most
\* MAX_ADJACENT_TURBINES of them.
AdjacentByLayout(loader, station_id) ==
    LET lay == loader.layout_data
        IsTarget(e) == e.StationId = station_id
        target == SelectSeq(lay, IsTarget)[1]
        IsOther(e) == e.StationId # station_id
        Within(e) == Distance2(e, target)
                       <= ADJACENCY_DISTANCE_THRESHOLD * ADJACENCY_DISTANCE_THRESHOLD
        Closest(within) ==
            Take(StableSort(within, [i \in 1..Len(within) |-> <<Distance2(within[i], target)>>]),
                 MAX_ADJACENT_TURBINES)
    IN Column(Closest(SelectSeq(SelectSeq(lay, IsOther), Within)), "StationId")

\* A fallback branch that never compares the numbers: the other turbines of
\* the list, whatever their ids.
AdjacentByNumberAll(loader, station_id) ==
    LET Other(t) == t # station_id
        Among(all_turbines) ==
            IF ~\E i \in 1..Len(all_turbines) : all_turbines[i] = station_id
            THEN Returned(<<>>)
            ELSE Returned(Take(SelectSeq(all_turbines, Other), MAX_ADJACENT_TURBINES))
        After(got) == IF got.raised THEN Raised ELSE Among(got.value)
    IN After(get_turbine_list(loader))

\* get_adjacent_turbines, the fallback branch: turbines of the loaded data
\* whose number is within MAX_ADJACENT_TURBINES of the target's number; when
\* the target's id holds no digit, the first other turbines of the list.
AdjacentByNumber(loader, station_id) ==
    LET Near(t) == /\ t # station_id
                   /\ HasDigits(t)
                   /\ Abs(StationNumber(t) - StationNumber(station_id)) <= MAX_ADJACENT_TURBINES
        Other(t) == t # station_id
        Among(all_turbines) ==
            IF ~\E i \in 1..Len(all_turbines) : all_turbines[i] = station_id
            THEN Returned(<<>>)
            ELSE IF HasDigits(station_id)
            THEN Returned(Take(SelectSeq(all_turbines, Near), MAX_ADJACENT_TURBINES))
            ELSE Returned(Take(SelectSeq(all_turbines, Other), MAX_ADJACENT_TURBINES))
        After(got) == IF got.raised THEN Raised ELSE Among(got.value)
    IN After(get_turbine_list(loader))

get_adjacent_turbines(loader, station_id) ==
    IF /\ loader.layout_loaded
       /\ \E i \in 1..Len(loader.layout_data) : loader.layout_data[i].StationId = station_id
    THEN Returned(AdjacentByLayout(loader, station_id))
    ELSE AdjacentByNumber(loader, station_id)

\* ------------------------------------------------------- operational_state.py
\* _get_reference_wind_speeds: the readings of the adjacent turbines at the
\* timestamp, then the first reading of each metmast column at the timestamp.
get_reference_wind_speeds(data, timestamp, adjacent, metmast_columns) ==
    LET AtTs(r) == r.TimeStamp # NaN /\ r.TimeStamp = timestamp
        at_ts == SelectSeq(data.rows, AtTs)
        IsAdj(r) == /\ \E i \in 1..Len(adjacent) : adjacent[i] = r.StationId
                    /\ r.wtc_AcWindSp_mean # NaN
        valid_speeds == Column(SelectSeq(at_ts, IsAdj), "wtc_AcWindSp_mean")
        HasMet(r) == r.met_WindSpeedRot_mean_38 # NaN
        met_rows == SelectSeq(at_ts, HasMet)
        met_values ==
            IF /\ "met_WindSpeedRot_mean_38" \in metmast_columns
               /\ data.met_col
               /\ met_rows # <<>>
            THEN <<met_rows[1].met_WindSpeedRot_mean_38>> ELSE <<>>
        Mean(reference_speeds) ==
            IF at_ts = <<>> \/ reference_speeds = <<>>
            THEN [sum |-> 0, count |-> 0]
            ELSE [sum |-> SumSeq(reference_speeds), count |-> Len(reference_speeds)]
    IN Mean(valid_speeds \o met_values)

\* avg_reference <= x instead of avg_reference < x.
AvgLe(ref, x) == IF ref.count = 0 THEN 0 <= x ELSE ref.sum <= x * ref.count

\* avg_reference < x and the like, on the mean kept as (sum, count).
AvgLt(ref, x) == IF ref.count = 0 THEN 0 < x ELSE ref.sum < x * ref.count

\* A wind_condition that ignores the references.
WindAssumedSufficient(ref) == "SUFFICIENT_CONFIRMED"

\* The wind_condition decided from the references alone.
WindFromReferences(ref) ==
    IF AvgLt(ref, CUT_IN_WIND_SPEED) THEN "CONFIRMED_LOW_WIND" ELSE "SUFFICIENT_CONFIRMED"

\* _assess_wind_and_sensor with a deviation equal to the threshold flagged too.
assess_wind_and_sensor_inclusive(turbine_wind, ref) ==
    LET Result(err, type, cond, kind) ==
            [is_sensor_error |-> err, sensor_error_type |-> type, wind_condition |-> cond,
             wind_reason |-> Reason(kind, turbine_wind, ref.sum, ref.count),
             turbine_wind |-> turbine_wind, reference |-> ref]
        \* abs(turbine_wind - avg_ref_wind) >= WIND_SPEED_DEVIATION_THRESHOLD
        deviates == Abs(turbine_wind * ref.count - ref.sum)
                      >= WIND_SPEED_DEVIATION_THRESHOLD * ref.count
        \* turbine_wind < avg_ref_wind - WIND_SPEED_DEVIATION_THRESHOLD
        reads_low == turbine_wind * ref.count
                       < ref.sum - WIND_SPEED_DEVIATION_THRESHOLD * ref.count
    IN IF turbine_wind = NaN THEN
           IF ref.count > 0
           THEN Result(TRUE, "SENSOR_ERROR_ANOMALOUS", WindFromReferences(ref), "missing_refs")
           ELSE Result(TRUE, "SENSOR_ERROR_ANOMALOUS", "SUFFICIENT_SUSPECTED", "missing_norefs")
       ELSE IF ref.count > 0 THEN
           IF deviates
           THEN Result(TRUE,
                       IF reads_low THEN "SENSOR_ERROR_LOW" ELSE "SENSOR_ERROR_ANOMALOUS",
                       WindFromReferences(ref), "unreliable")
           ELSE IF turbine_wind < CUT_IN_WIND_SPEED THEN
               IF AvgLt(ref, CUT_IN_WIND_SPEED)
               THEN Result(FALSE, "None", "CONFIRMED_LOW_WIND", "low_confirmed")
               ELSE Result(FALSE, "None", "SUSPECTED_LOW_WIND", "low_refs_higher")
           ELSE IF ~AvgLt(ref, CUT_IN_WIND_SPEED)
               THEN Result(FALSE, "None", "SUFFICIENT_CONFIRMED", "sufficient_confirmed")
               ELSE Result(FALSE, "None", "SUFFICIENT_CONFIRMED", "sufficient_refs_lower")
       ELSE IF turbine_wind < CUT_IN_WIND_SPEED
           THEN Result(FALSE, "None", "SUSPECTED_LOW_WIND", "low_norefs")
           ELSE Result(FALSE, "None", "SUFFICIENT_SUSPECTED", "sufficient_norefs")

\* _assess_wind_and_sensor on the turbine's reading and the references.
assess_wind_and_sensor(turbine_wind, ref) ==
    LET Result(err, type, cond, kind) ==
            [is_sensor_error |-> err, sensor_error_type |-> type, wind_condition |-> cond,
             wind_reason |-> Reason(kind, turbine_wind, ref.sum, ref.count),
             turbine_wind |-> turbine_wind, reference |-> ref]
        \* abs(turbine_wind - avg_ref_wind) > WIND_SPEED_DEVIATION_THRESHOLD
        deviates == Abs(turbine_wind * ref.count - ref.sum)
                      > WIND_SPEED_DEVIATION_THRESHOLD * ref.count
        \* turbine_wind < avg_ref_wind - WIND_SPEED_DEVIATION_THRESHOLD
        reads_low == turbine_wind * ref.count
                       < ref.sum - WIND_SPEED_DEVIATION_THRESHOLD * ref.count
    IN IF turbine_wind = NaN THEN
           IF ref.count > 0
           THEN Result(TRUE, "SENSOR_ERROR_ANOMALOUS", WindFromReferences(ref), "missing_refs")
           ELSE Result(TRUE, "SENSOR_ERROR_ANOMALOUS", "SUFFICIENT_SUSPECTED", "missing_norefs")
       ELSE IF ref.count > 0 THEN
           IF deviates
           THEN Result(TRUE,
                       IF reads_low THEN "SENSOR_ERROR_LOW" ELSE "SENSOR_ERROR_ANOMALOUS",
                       WindFromReferences(ref), "unreliable")
           ELSE IF turbine_wind < CUT_IN_WIND_SPEED THEN
               IF AvgLt(ref, CUT_IN_WIND_SPEED)
               THEN Result(FALSE, "None", "CONFIRMED_LOW_WIND", "low_confirmed")
               ELSE Result(FALSE, "None", "SUSPECTED_LOW_WIND", "low_refs_higher")
           ELSE IF ~AvgLt(ref, CUT_IN_WIND_SPEED)
               THEN Result(FALSE, "None", "SUFFICIENT_CONFIRMED", "sufficient_confirmed")
               ELSE Result(FALSE, "None", "SUFFICIENT_CONFIRMED", "sufficient_refs_lower")
       ELSE IF turbine_wind < CUT_IN_WIND_SPEED
           THEN Result(FALSE, "None", "SUSPECTED_LOW_WIND", "low_norefs")
           ELSE Result(FALSE, "None", "SUFFICIENT_SUSPECTED", "sufficient_norefs")

\* _assess_startup_sequence with low wind of exactly 20 minutes before left out.
assess_startup_sequence_strict_low_wind(row, history) ==
    LET current_time == row.TimeStamp
        lookback_time == IF current_time = NaN THEN NaN ELSE current_time - LOOKBACK_MINUTES
        Recent(r) == Ge(r.TimeStamp, lookback_time) /\ Lt(r.TimeStamp, current_time)
        recent_data == SelectSeq(history, Recent)
        LowWind(r) == Lt(r.wtc_AcWindSp_mean, CUT_IN_WIND_SPEED)
        recent_low_wind == SelectSeq(recent_data, LowWind)
        time_since_low_wind == current_time - recent_low_wind[Len(recent_low_wind)].TimeStamp
        Alarm(r) == Gt(r.EffectiveAlarmTime, 0)
        recent_alarms == SelectSeq(recent_data, Alarm)
        time_since_alarm == current_time - recent_alarms[Len(recent_alarms)].TimeStamp
        Out(startup, trigger, kind, minutes) ==
            [is_startup |-> startup, trigger |-> trigger,
             reason |-> Reason(kind, minutes, 0, 0)]
    IN IF recent_data = <<>> THEN Out(FALSE, "None", "no_recent_data", 0)
       ELSE IF recent_low_wind # <<>> /\ time_since_low_wind < POST_LOW_WIND_MINUTES
            THEN Out(TRUE, "POST_LOW_WIND", "startup_after_low_wind", time_since_low_wind)
       ELSE IF recent_alarms # <<>> /\ time_since_alarm <= POST_ALARM_MINUTES
            THEN Out(TRUE, "POST_ALARM", "startup_after_alarm", time_since_alarm)
       ELSE Out(FALSE, "None", "not_in_startup", 0)

\* _assess_startup_sequence with an alarm of exactly 15 minutes before left out.
assess_startup_sequence_strict_alarm(row, history) ==
    LET current_time == row.TimeStamp
        lookback_time == IF current_time = NaN THEN NaN ELSE current_time - LOOKBACK_MINUTES
        Recent(r) == Ge(r.TimeStamp, lookback_time) /\ Lt(r.TimeStamp, current_time)
        recent_data == SelectSeq(history, Recent)
        LowWind(r) == Lt(r.wtc_AcWindSp_mean, CUT_IN_WIND_SPEED)
        recent_low_wind == SelectSeq(recent_data, LowWind)
        time_since_low_wind == current_time - recent_low_wind[Len(recent_low_wind)].TimeStamp
        Alarm(r) == Gt(r.EffectiveAlarmTime, 0)
        recent_alarms == SelectSeq(recent_data, Alarm)
        time_since_alarm == current_time - recent_alarms[Len(recent_alarms)].TimeStamp
        Out(startup, trigger, kind, minutes) ==
            [is_startup |-> startup, trigger |-> trigger,
             reason |-> Reason(kind, minutes, 0, 0)]
    IN IF recent_data = <<>> THEN Out(FALSE, "None", "no_recent_data", 0)
       ELSE IF recent_low_wind # <<>> /\ time_since_low_wind <= POST_LOW_WIND_MINUTES
            THEN Out(TRUE, "POST_LOW_WIND", "startup_after_low_wind", time_since_low_wind)
       ELSE IF recent_alarms # <<>> /\ time_since_alarm < POST_ALARM_MINUTES
            THEN Out(TRUE, "POST_ALARM", "startup_after_alarm", time_since_alarm)
       ELSE Out(FALSE, "None", "not_in_startup", 0)

\* _assess_startup_sequence with the alarm check before the low-wind check.
assess_startup_sequence_alarm_first(row, history) ==
    LET current_time == row.TimeStamp
        lookback_time == IF current_time = NaN THEN NaN ELSE current_time - LOOKBACK_MINUTES
        Recent(r) == Ge(r.TimeStamp, lookback_time) /\ Lt(r.TimeStamp, current_time)
        recent_data == SelectSeq(history, Recent)
        LowWind(r) == Lt(r.wtc_AcWindSp_mean, CUT_IN_WIND_SPEED)
        recent_low_wind == SelectSeq(recent_data, LowWind)
        time_since_low_wind == current_time - recent_low_wind[Len(recent_low_wind)].TimeStamp
        Alarm(r) == Gt(r.EffectiveAlarmTime, 0)
        recent_alarms == SelectSeq(recent_data, Alarm)
        time_since_alarm == current_time - recent_alarms[Len(recent_alarms)].TimeStamp
        Out(startup, trigger, kind, minutes) ==
            [is_startup |-> startup, trigger |-> trigger,
             reason |-> Reason(kind, minutes, 0, 0)]
    IN IF recent_data = <<>> THEN Out(FALSE, "None", "no_recent_data", 0)
       ELSE IF recent_alarms # <<>> /\ time_since_alarm <= POST_ALARM_MINUTES
            THEN Out(TRUE, "POST_ALARM", "startup_after_alarm", time_since_alarm)
       ELSE IF recent_low_wind # <<>> /\ time_since_low_wind <= POST_LOW_WIND_MINUTES
            THEN Out(TRUE, "POST_LOW_WIND", "startup_after_low_wind", time_since_low_wind)
       ELSE Out(FALSE, "None", "not_in_startup", 0)

\* _assess_startup_sequence on the row and the rows of its turbine (sorted by
\* time): the look-back window is [current - 30 min, current).
assess_startup_sequence(row, history) ==
    LET current_time == row.TimeStamp
        lookback_time == IF current_time = NaN THEN NaN ELSE current_time - LOOKBACK_MINUTES
        Recent(r) == Ge(r.TimeStamp, lookback_time) /\ Lt(r.TimeStamp, current_time)
        recent_data == SelectSeq(history, Recent)
        LowWind(r) == Lt(r.wtc_AcWindSp_mean, CUT_IN_WIND_SPEED)
        recent_low_wind == SelectSeq(recent_data, LowWind)
        time_since_low_wind == current_time - recent_low_wind[Len(recent_low_wind)].TimeStamp
        Alarm(r) == Gt(r.EffectiveAlarmTime, 0)
        recent_alarms == SelectSeq(recent_data, Alarm)
        time_since_alarm == current_time - recent_alarms[Len(recent_alarms)].TimeStamp
        Out(startup, trigger, kind, minutes) ==
            [is_startup |-> startup, trigger |-> trigger,
             reason |-> Reason(kind, minutes, 0, 0)]
    IN IF recent_data = <<>> THEN Out(FALSE, "None", "no_recent_data", 0)
       ELSE IF recent_low_wind # <<>> /\ time_since_low_wind <= POST_LOW_WIND_MINUTES
            THEN Out(TRUE, "POST_LOW_WIND", "startup_after_low_wind", time_since_low_wind)
       ELSE IF recent_alarms # <<>> /\ time_since_alarm <= POST_ALARM_MINUTES
            THEN Out(TRUE, "POST_ALARM", "startup_after_alarm", time_since_alarm)
       ELSE Out(FALSE, "None", "not_in_startup", 0)

\* The reason of rule 9 and of rule 10: the assessment's numbers and its reason.
OuterReason(kind, a) ==
    [kind |-> kind, a |-> a.turbine_wind, b |-> a.reference.sum, c |-> a.reference.count,
     detail |-> a.wind_reason.kind]

\* _classify_single_timestamp: the rules in order, the first that matches.
classify_single_timestamp(row, history, data, adjacent, metmast_columns) ==
    LET power_min == row.wtc_ActPower_min
        Rules(a, wind_cond, startup) ==
           IF Gt(power_min, PRODUCTION_THRESHOLD_KW) THEN
               StateInfo("PRODUCING", "PRODUCING", Reason("min_power", power_min, 0, 0), TRUE)
           ELSE IF Gt(row.EffectiveAlarmTime, ALARM_THRESHOLD_SECONDS) THEN
               StateInfo("NOT_PRODUCING_EXPLAINED", "ALARM_ACTIVE",
                         Reason("active_alarm_f0", row.EffectiveAlarmTime, 0, 0), FALSE)
           ELSE IF \/ Gt(row.wtc_PowerRed_timeon, CURTAILMENT_THRESHOLD_SECONDS)
                   \/ Gt(row.Duration_2006, CURTAILMENT_THRESHOLD_SECONDS) THEN
               StateInfo("NOT_PRODUCING_EXPLAINED", "CURTAILMENT_ACTIVE",
                         Reason(IF Gt(row.wtc_PowerRed_timeon, 0) THEN "external_curtailment"
                                ELSE "internal_curtailment", 0, 0, 0), FALSE)
           ELSE IF a.is_sensor_error THEN
               StateInfo("NOT_PRODUCING_UNEXPECTED", a.sensor_error_type, a.wind_reason, FALSE)
           ELSE IF wind_cond = "CONFIRMED_LOW_WIND" THEN
               StateInfo("NOT_PRODUCING_EXPLAINED", "CONFIRMED_LOW_WIND", a.wind_reason, FALSE)
           ELSE IF startup.is_startup THEN
               IF startup.trigger = "POST_LOW_WIND" THEN
                   StateInfo("NOT_PRODUCING_EXPLAINED", "STARTUP_POST_LOW_WIND", startup.reason, FALSE)
               ELSE IF startup.trigger = "POST_ALARM" THEN
                   StateInfo("NOT_PRODUCING_EXPLAINED", "STARTUP_POST_ALARM", startup.reason, FALSE)
               ELSE StateInfo("NOT_PRODUCING_VERIFICATION_PENDING", "STARTUP_UNCLEAR",
                              startup.reason, FALSE)
           ELSE IF wind_cond = "SUSPECTED_LOW_WIND" THEN
               StateInfo("NOT_PRODUCING_VERIFICATION_PENDING", "SUSPECTED_LOW_WIND",
                         a.wind_reason, FALSE)
           ELSE IF wind_cond = "SUFFICIENT_CONFIRMED" \/ wind_cond = "SUFFICIENT_SUSPECTED" THEN
               StateInfo("NOT_PRODUCING_UNEXPECTED", "MECHANICAL_CONTROL_ISSUE",
                         OuterReason("sufficient_wind_not_producing", a), FALSE)
           ELSE StateInfo("NOT_PRODUCING_UNEXPECTED", "UNKNOWN_NON_PRODUCTION",
                          OuterReason("unable_to_determine", a), FALSE)
        Assessed(a) == Rules(a, a.wind_condition, assess_startup_sequence(row, history))
    IN Assessed(assess_wind_and_sensor(row.wtc_AcWindSp_mean,
                   get_reference_wind_speeds(data, row.TimeStamp, adjacent, metmast_columns)))

\* The five result cells of a row; the new cells replace cells of these names.
WithResult(row, state, category, subcategory, reason, producing) ==
    [operational_state |-> state, state_category |-> category,
     state_subcategory |-> subcategory, state_reason |-> reason,
     is_producing |-> producing] @@ row

WithStateInfo(row, info) ==
    WithResult(row, info.state, info.category, info.subcategory, info.reason,
               IF info.is_producing THEN "True" ELSE "False")

\* The masks of the vectorized steps 1 to 3.
producing_mask(r) == Gt(r.wtc_ActPower_min, PRODUCTION_THRESHOLD_KW)
alarm_mask(r) == ~producing_mask(r) /\ Gt(r.EffectiveAlarmTime, ALARM_THRESHOLD_SECONDS)
curtailment_external_cond_mask(r) == Gt(r.wtc_PowerRed_timeon, CURTAILMENT_THRESHOLD_SECONDS)
curtailment_internal_cond_mask(r) == Gt(r.Duration_2006, CURTAILMENT_THRESHOLD_SECONDS)
\* A curtailment mask that looks at the external duration alone.
curtailment_mask_external(r) ==
    /\ ~producing_mask(r) /\ ~alarm_mask(r)
    /\ curtailment_external_cond_mask(r)

curtailment_mask(r) ==
    /\ ~producing_mask(r) /\ ~alarm_mask(r)
    /\ curtailment_external_cond_mask(r) \/ curtailment_internal_cond_mask(r)

\* A row of a group after the vectorized steps: classified by the first mask
\* that holds, or still UNCLASSIFIED.
VectorizedSteps(r) ==
    IF producing_mask(r) THEN
        WithStateInfo(r, StateInfo("PRODUCING", "PRODUCING",
                                   Reason("min_power", r.wtc_ActPower_min, 0, 0), TRUE))
    ELSE IF alarm_mask(r) THEN
        WithStateInfo(r, StateInfo("NOT_PRODUCING_EXPLAINED", "ALARM_ACTIVE",
                                   Reason("active_alarm", r.EffectiveAlarmTime, 0, 0), FALSE))
    ELSE IF curtailment_mask(r) THEN
        WithStateInfo(r, StateInfo("NOT_PRODUCING_EXPLAINED", "CURTAILMENT_ACTIVE",
                                   Reason(IF curtailment_external_cond_mask(r)
                                          THEN "external_curtailment"
                                          ELSE "internal_curtailment", 0, 0, 0), FALSE))
    ELSE WithResult(r, "UNCLASSIFIED", Category("NOT_PRODUCING_UNEXPECTED"),
                    Subcategory("UNKNOWN_NON_PRODUCTION"),
                    Reason("pre_classification_pending", 0, 0, 0), "False")

\* One pass of the loop over the groups: the vectorized steps, then
\* _classify_single_timestamp on each row they left UNCLASSIFIED.  The call
\* of get_adjacent_turbines is made only when such a row exists.
ProcessGroup(station_id, group_df_original, data, loader, metmast_columns) ==
    LET Unclassified(r) == r.operational_state = "UNCLASSIFIED"
        Loop(group_df, adj) ==
            LET Iterative(r) ==
                    IF Unclassified(r)
                    THEN WithStateInfo(r, classify_single_timestamp(r, group_df, data,
                                              adj.value, metmast_columns))
                    ELSE r
            IN IF SelectSeq(group_df, Unclassified) = <<>> THEN Returned(group_df)
               ELSE IF adj.raised THEN Raised
               ELSE Returned([i \in 1..Len(group_df) |-> Iterative(group_df[i])])
    IN Loop([i \in 1..Len(group_df_original) |-> VectorizedSteps(group_df_original[i])],
            get_adjacent_turbines(loader, station_id))

\* data.sort_values(["StationId", "TimeStamp"]): missing values last.
RowKey(r) ==
    <<IF r.StationId = NoId THEN 1 ELSE 0, r.StationId,
      IF r.TimeStamp = NaN THEN 1 ELSE 0, r.TimeStamp>>

sort_values(rows) == StableSort(rows, [i \in 1..Len(rows) |-> RowKey(rows[i])])

\* The keys of groupby("StationId", sort=False): in order of first appearance,
\* rows with a missing key belong to no group.
GroupKeys(rows) ==
    LET HasId(x) == x # NoId
    IN SelectSeq(Unique(Column(rows, "StationId")), HasId)

\* A row that reindex() creates for a label that the frame does not hold.
MissingRow(label) ==
    WithResult([idx |-> label, StationId |-> NoId, TimeStamp |-> NaN,
                wtc_ActPower_min |-> NaN, EffectiveAlarmTime |-> NaN,
                wtc_PowerRed_timeon |-> NaN, Duration_2006 |-> NaN,
                wtc_AcWindSp_mean |-> NaN, met_WindSpeedRot_mean_38 |-> NaN],
               "NaN", "NaN", "NaN", Reason("NaN", 0, 0, 0), "NaN")

\* frame.reindex(index): the rows of frame in the order of the labels.
Reindex(frame_rows, index) ==
    LET RowOf(label) ==
            IF \E j \in 1..Len(frame_rows) : frame_rows[j].idx = label
            THEN frame_rows[CHOOSE j \in 1..Len(frame_rows) : frame_rows[j].idx = label]
            ELSE MissingRow(label)
    IN [i \in 1..Len(index) |-> RowOf(index[i])]

\* pd.concat over the groups in key order, up to the first group that raises.
RECURSIVE ProcessGroups(_, _, _, _, _)
ProcessGroups(keys, sorted, data, loader, metmast_columns) ==
    IF keys = <<>> THEN Returned(<<>>)
    ELSE LET InGroup(r) == r.StationId = Head(keys)
             Concat(first, rest) ==
                 IF first.raised \/ rest.raised THEN Raised
                 ELSE Returned(first.value \o rest.value)
         IN Concat(ProcessGroup(Head(keys), SelectSeq(sorted, InGroup), data, loader,
                                metmast_columns),
                   ProcessGroups(Tail(keys), sorted, data, loader, metmast_columns))

\* classify_turbine_states(data) of a classifier built on loader.  The outcome
\* is [raised, value, data_after]: value is the returned frame, data_after the
\* caller's frame as the call leaves it.
classify_turbine_states(data, loader) ==
    LET Placeholder(r) == WithResult(r, "UNKNOWN", "Unknown", "Unknown",
                                     Reason("not_classified", 0, 0, 0), "False")
        result_data == [data EXCEPT !.rows = [i \in 1..Len(data.rows) |->
                                                 Placeholder(data.rows[i])],
                                    !.result_cols = TRUE]
        Combined(converted, keys, processed) ==
            IF processed.raised THEN
                [raised |-> TRUE, data_after |-> converted]
            ELSE IF keys = <<>> THEN
                [raised |-> FALSE, value |-> result_data, data_after |-> converted]
            ELSE [raised |-> FALSE,
                  value |-> [converted EXCEPT
                               !.rows = Reindex(processed.value, Column(data.rows, "idx")),
                               !.result_cols = TRUE],
                  data_after |-> converted]
        Grouped(converted, sorted, keys) ==
            Combined(converted, keys,
                     ProcessGroups(keys, sorted, converted, loader,
                                   get_metmast_columns(loader)))
        Sorted(converted, sorted) == Grouped(converted, sorted, GroupKeys(sorted))
        \* data["TimeStamp"] = pd.to_datetime(data["TimeStamp"]), on the argument
        Converted(converted) == Sorted(converted, sort_values(converted.rows))
    IN IF data.rows = <<>> THEN
           [raised |-> FALSE, value |-> data, data_after |-> data]
       ELSE IF data.ts_dtype = "unparseable" THEN
           [raised |-> TRUE, data_after |-> data]
       ELSE Converted([data EXCEPT !.ts_dtype = "datetime"])

\* ------------------------------------------------ data_loader.py: loading
\* config.py REQUIRED_COLUMNS, in order.
REQUIRED_COLUMNS ==
    <<"StationId", "TimeStamp", "EffectiveAlarmTime", "UK Text", "Duration 2006(s)",
      "wtc_kWG1TotE_accum", "wtc_ActPower_mean", "wtc_ActPower_min", "wtc_ActPower_max",
      "wtc_AcWindSp_mean", "wtc_ActualWindDirection_mean", "wtc_PowerRed_timeon">>

\* A file on disk: [kind, lacks, frame].  kind is "absent" (no file at the
\* path), "bad_extension", "corrupt" (unpickling raises), "not_frame" (the
\* pickle holds no DataFrame) or "frame"; lacks is the set of required
\* columns the frame does not have.  The ts_dtype of a frame is "datetime",
\* "object" (strings pd.to_datetime parses) or "unparseable" (it raises).
NoFile == [kind |-> "absent"]

Message(kind, detail) == [kind |-> kind, detail |-> detail]

\* DataLoader.__init__
NewLoader == [data |-> None, data_loaded |-> FALSE,
              layout_data |-> <<>>, layout_loaded |-> FALSE]

\* _preprocess_data on the stored frame: [ok, data].
preprocess_data(data) ==
    LET \* reset_index(drop=True): the labels become the positions
        ResetIndex(sorted) ==
            IF sorted = <<>> THEN <<>>
            ELSE [i \in 1..Len(sorted) |-> [sorted[i] EXCEPT !.idx = i]]
    IN IF data.ts_dtype = "unparseable" THEN [ok |-> FALSE, data |-> data]
       ELSE [ok |-> TRUE,
             data |-> [data EXCEPT !.ts_dtype = "datetime",
                                   !.rows = ResetIndex(sort_values(data.rows)),
                                   !.derived = TRUE]]

\* A loader that validates nothing: no column is ever reported missing.
NoMissingColumns(file) == <<>>

\* The required columns the frame of the file lacks, in the order of
\* REQUIRED_COLUMNS.
MissingColumns(file) ==
    LET Lacks(c) == c \in file.lacks
    IN SelectSeq(REQUIRED_COLUMNS, Lacks)

\* load_pkl_data(file_path): [loader, success, message].
load_pkl_data(loader, file) ==
    LET missing_cols == MissingColumns(file)
        stored == [loader EXCEPT !.data = file.frame]
        Fail(l, kind, detail) ==
            [loader |-> l, success |-> FALSE, message |-> Message(kind, detail)]
        Preprocessed(pre) ==
            IF ~pre.ok
            THEN Fail(stored, "data_preprocessing_failed", <<>>)
            ELSE [loader |-> [stored EXCEPT !.data = pre.data, !.data_loaded = TRUE],
                  success |-> TRUE,
                  message |-> Message("successfully_loaded",
                      <<Len(pre.data.rows), Len(Unique(Column(pre.data.rows, "StationId")))>>)]
    IN CASE file.kind = "absent" -> Fail(loader, "file_not_found", <<>>)
         [] file.kind = "bad_extension" -> Fail(loader, "must_be_pkl", <<>>)
         [] file.kind = "corrupt" -> Fail(loader, "error_loading_file", <<>>)
         [] file.kind = "not_frame" -> Fail(loader, "must_contain_dataframe", <<>>)
         [] file.kind = "frame" ->
              IF missing_cols # <<>>
              THEN Fail(loader, "missing_required_columns", missing_cols)
              ELSE Preprocessed(preprocess_data(file.frame))

\* get_time_range: the least and the greatest TimeStamp, missing ones
\* skipped; NaT when there is none.
get_time_range(loader) ==
    IF ~loader.data_loaded THEN <<None, None>>
    ELSE LET ts == {loader.data.rows[i].TimeStamp : i \in 1..Len(loader.data.rows)} \ {NaN}
         IN IF ts = {} THEN <<NaN, NaN>>
            ELSE <<CHOOSE t \in ts : \A u \in ts : t <= u,
                   CHOOSE t \in ts : \A u \in ts : t >= u>>

\* get_data_summary
get_data_summary(loader) ==
    IF ~loader.data_loaded THEN [empty |-> TRUE]
    ELSE [total_records |-> Len(loader.data.rows),
          time_range |-> get_time_range(loader),
          unique_turbines |-> Len(Unique(Column(loader.data.rows, "StationId"))),
          metmast_columns |-> get_metmast_columns(loader),
          layout_available |-> loader.layout_loaded]

\* ------------------------------------------------------------ the state
VARIABLES
    temp_file,   \* the uploaded data file at temp_path
    loader,      \* the module-level DataLoader
    ui,          \* the browser stores: temp-file-path-store and data-store are set
    call,        \* the last call of the function under study (of
                 \* classify_turbine_states: its argument before and after
                 \* the call, and its outcome)
    twin,        \* the same for a second run, on a variant of that argument
    again,       \* the same for a second call, on the frame the last call returned
    response     \* what the last handler returned

vars == <<temp_file, loader, ui, call, twin, again, response>>

NoCall == [op |-> "none"]
NoResponse == [op |-> "none"]

\* The record of a call of classify_turbine_states(arg), of a classifier built
\* on the loader ld, with outcome c.
Called(arg, c, ld) ==
    [op |-> "classify_turbine_states", arg |-> arg, arg_after |-> c.data_after,
     loader |-> ld, raised |-> c.raised, value |-> IF c.raised THEN None ELSE c.value]

\* _execute_calculation(temp_path, data_loader, state_classifier) on the file
\* at temp_path: the loader it leaves, the classification it made and what it
\* returned (or that it raised).
execute_calculation(ld, file) ==
    LET Stored(l, c, stored) ==
            [loader |-> stored, call |-> Called(l.loader.data, c, l.loader),
             response |-> [op |-> "_execute_calculation", raised |-> FALSE,
                           success |-> TRUE,
                           message |-> Message("calculation_complete", <<>>),
                           summary |-> get_data_summary(stored)]]
        Classified(l, c) ==
            IF c.raised THEN
                [loader |-> [l.loader EXCEPT !.data = c.data_after],
                 call |-> Called(l.loader.data, c, l.loader),
                 response |-> [op |-> "_execute_calculation", raised |-> TRUE]]
            ELSE Stored(l, c, [l.loader EXCEPT !.data = c.value])
        Loaded(l) ==
            IF ~l.success THEN
                [loader |-> l.loader, call |-> NoCall,
                 response |-> [op |-> "_execute_calculation", raised |-> FALSE,
                               success |-> FALSE, message |-> l.message,
                               summary |-> [empty |-> TRUE]]]
            ELSE Classified(l, classify_turbine_states(l.loader.data, l.loader))
    IN Loaded(load_pkl_data(ld, file))

\* create_data_summary_display(summary) of a summary that is not empty: both
\* ends of the time range are truthy, NaT included, and strftime of NaT raises.
create_data_summary_display(summary) ==
    [raised |-> summary.time_range[1] = NaN \/ summary.time_range[2] = NaN]

\* What the browser sends to handle_data_upload: nothing, contents that cannot
\* be split and decoded, a file whose temporary copy cannot be written, or a
\* file.
NoContents == [kind |-> "no_contents"]
Undecodable == [kind |-> "undecodable"]
Unsaved == [kind |-> "unsaved"]

\* handle_data_upload: the upload is saved at temp_path, which goes to the
\* store; without contents, or when decoding or saving fails, the store is
\* emptied and the file of an earlier upload stays where it is.
HandleDataUpload(file) ==
    /\ IF file \in {NoContents, Undecodable, Unsaved}
       THEN /\ temp_file' = temp_file
            /\ ui' = [ui EXCEPT !.temp_path = FALSE]
       ELSE /\ temp_file' = file
            /\ ui' = [ui EXCEPT !.temp_path = TRUE]
    /\ call' = NoCall
    /\ twin' = NoCall
    /\ again' = NoCall
    /\ response' = [op |-> "handle_data_upload"]
    /\ UNCHANGED loader

\* run_calculation: _execute_calculation on temp_path, which removes the file;
\* the store is filled when the calculation succeeded and the summary could
\* be displayed.
RunCalculation ==
    IF ~ui.temp_path THEN
        /\ ui' = [ui EXCEPT !.data_store = FALSE]
        /\ call' = NoCall
        /\ twin' = NoCall
        /\ again' = NoCall
        /\ response' = [op |-> "run_calculation"]
        /\ UNCHANGED <<temp_file, loader>>
    ELSE
        \E e \in {execute_calculation(loader, temp_file)} :
           /\ temp_file' = NoFile
           /\ loader' = e.loader
           /\ call' = e.call
           /\ twin' = NoCall
           /\ again' = NoCall
           /\ response' = e.response
           /\ ui' = [ui EXCEPT !.data_store =
                          IF e.response.raised THEN FALSE
                          ELSE IF ~e.response.success THEN FALSE
                          ELSE ~create_data_summary_display(e.response.summary).raised]

\* handle_layout_upload / _process_uploaded_layout_file.  A layout file is
\* [kind, lacks, entries]: kind "bad_csv" (read_csv raises) or "frame".
ProcessUploadedLayoutFile(file) ==
    /\ IF file.kind = "frame" /\ file.lacks = {}
       THEN /\ loader' = [loader EXCEPT !.layout_data = file.entries,
                                         !.layout_loaded = TRUE]
            /\ response' = [op |-> "handle_layout_upload", success |-> TRUE]
       ELSE /\ loader' = loader
            /\ response' = [op |-> "handle_layout_upload", success |-> FALSE]
    /\ call' = NoCall
    /\ twin' = NoCall
    /\ again' = NoCall
    /\ UNCHANGED <<temp_file, ui>>

\* update_adjacent_turbines_options(selected_turbine, data_store)
UpdateAdjacentTurbinesOptions(selected_turbine) ==
    LET Options(adj) == IF ~ui.data_store \/ adj.raised THEN <<>> ELSE adj.value
    IN /\ response' = [op |-> "update_adjacent_turbines_options",
                       turbine |-> selected_turbine,
                       options |-> Options(get_adjacent_turbines(loader, selected_turbine))]
       /\ call' = NoCall
       /\ twin' = NoCall
       /\ again' = NoCall
       /\ UNCHANGED <<temp_file, loader, ui>>

\* classify_turbine_states(d) called on the uploaded frame as it is, by a
\* classifier built on the module's loader or on a loader that loaded the
\* same file.
ClassifyTurbineStates ==
    /\ temp_file.kind = "frame" /\ temp_file.lacks = {}
    /\ call = NoCall
    /\ \E ld \in {loader, load_pkl_data(NewLoader, temp_file).loader} :
          call' = Called(temp_file.frame, classify_turbine_states(temp_file.frame, ld), ld)
    /\ twin' = NoCall
    /\ again' = NoCall
    /\ response' = NoResponse
    /\ UNCHANGED <<temp_file, loader, ui>>

\* classify_turbine_states called again, by the same classifier, on the frame
\* its last call returned.  After _execute_calculation the classifier's loader
\* holds that frame.
ClassifyAgain ==
    /\ call.op = "classify_turbine_states" /\ ~call.raised
    /\ again = NoCall
    /\ \E ld \in {IF response.op = "_execute_calculation" THEN loader ELSE call.loader} :
          again' = Called(call.value, classify_turbine_states(call.value, ld), ld)
    /\ UNCHANGED <<temp_file, loader, ui, call, twin, response>>

\* The frames that differ from d in the power, alarm and wind cells of row j.
VariantsAt(d, j) ==
    {[d EXCEPT !.rows[j].wtc_ActPower_min = p, !.rows[j].EffectiveAlarmTime = a,
               !.rows[j].wtc_AcWindSp_mean = w] :
        p \in {0, 150}, a \in {0, 120}, w \in {NaN, 3, 5}} \ {d}

\* Row j of d is a later observation of the turbine of some row of d.
IsLaterRow(d, j) ==
    /\ d.rows[j].StationId # NoId
    /\ \E i \in 1..Len(d.rows) :
          /\ d.rows[i].StationId = d.rows[j].StationId
          /\ Lt(d.rows[i].TimeStamp, d.rows[j].TimeStamp)

\* A second session: _execute_calculation on a file whose frame is the frame
\* of the first run with the cells of one later observation changed.
RunCalculationOnVariant ==
    /\ response.op = "_execute_calculation"
    /\ call # NoCall /\ twin = NoCall
    /\ \E j \in 1..Len(call.arg.rows) :
          /\ IsLaterRow(call.arg, j)
          /\ \E v \in VariantsAt(call.arg, j) :
                twin' = execute_calculation(
                            [NewLoader EXCEPT !.layout_data = loader.layout_data,
                                              !.layout_loaded = loader.layout_loaded],
                            [kind |-> "frame", lacks |-> {}, frame |-> v]).call
    /\ UNCHANGED <<temp_file, loader, ui, call, again, response>>

\* ------------------------------------------------------------ the inputs
MaxRows == 3
MaxTurbine == 2

Turbines == 1..MaxTurbine
StationIds == Turbines \cup {NoId}

RowSet(ids, times, powers, alarms, externals, internals, winds, mets) ==
    [idx : {0}, StationId : ids, TimeStamp : times, wtc_ActPower_min : powers,
     EffectiveAlarmTime : alarms, wtc_PowerRed_timeon : externals,
     Duration_2006 : internals, wtc_AcWindSp_mean : winds,
     met_WindSpeedRot_mean_38 : mets]

\* The frames of n rows drawn from rows, labelled 1..n (a RangeIndex).
FramesOf(n, rows, dtypes, met_cols) ==
    {[rows |-> IF n = 0 THEN <<>> ELSE [i \in 1..n |-> [s[i] EXCEPT !.idx = i]],
      ts_dtype |-> t, met_col |-> m, derived |-> FALSE, result_cols |-> FALSE] :
        s \in [1..n -> rows], t \in dtypes, m \in met_cols}

\* One row: every rule, with and without a metmast reference.
FullRows == RowSet(StationIds, {0}, {NaN, 0, 150}, {NaN, 0, 120}, {NaN, 0, 60},
                   {NaN, 0, 60}, {NaN, 1, 3, 4, 7}, {NaN, 4})

\* Two rows: a row with a reference or with a history.
PairRows == RowSet(StationIds, {0, 15}, {0, 150}, {0, 120}, {0}, {0},
                   {NaN, 3, 5}, {NaN, 3})

\* Three rows and more: the order of the rows, the turbines and the times.
OrderRows == RowSet(StationIds, {0, 15}, {0, 150}, {0}, {0}, {0}, {5}, {NaN})

\* The frames of n rows the classifier is run on.
ClassifyFrames(n) ==
    CASE n = 0 -> FramesOf(n, FullRows, {"datetime", "object"}, {TRUE})
      [] n = 1 -> FramesOf(n, FullRows, {"datetime"}, {TRUE})
      [] n = 2 -> FramesOf(n, PairRows, {"datetime"}, {TRUE})
      [] OTHER -> FramesOf(n, OrderRows, {"datetime", "object"}, {FALSE})

FileOf(frame) == [kind |-> "frame", lacks |-> {}, frame |-> frame]

\* A layout entry: a row of the layout CSV.
Entry(id, x, y) == [StationId |-> id, X |-> x, Y |-> y]

\* The loaders a calculation starts from: a new one, and one on which a layout
\* of two turbines within the distance threshold was uploaded.
ClassifyLoaders ==
    {NewLoader,
     [NewLoader EXCEPT !.layout_data = <<Entry(1, 0, 0), Entry(2, 300, 0)>>,
                       !.layout_loaded = TRUE]}

\* The classifier on one uploaded frame: called directly, and by the pipeline.
InitClassify ==
    /\ \E n \in 0..MaxRows : temp_file \in {FileOf(d) : d \in ClassifyFrames(n)}
    /\ loader \in ClassifyLoaders
    /\ ui = [temp_path |-> TRUE, data_store |-> FALSE]
    /\ call = NoCall
    /\ twin = NoCall
    /\ again = NoCall
    /\ response = NoResponse

NextClassify ==
    \/ temp_file # NoFile /\ RunCalculation
    \/ ClassifyTurbineStates
    \/ RunCalculationOnVariant
    \/ ClassifyAgain

SpecClassify == InitClassify /\ [][NextClassify]_vars

\* The application: uploads, calculations, layouts and adjacency lookups.
\* An uploaded frame holds one observation of each turbine of a set, the
\* highest id first and the observation without id last.
AppRow(id) ==
    [idx |-> 0, StationId |-> id, TimeStamp |-> 0, wtc_ActPower_min |-> 0,
     EffectiveAlarmTime |-> 0, wtc_PowerRed_timeon |-> 0, Duration_2006 |-> 0,
     wtc_AcWindSp_mean |-> 3, met_WindSpeedRot_mean_38 |-> NaN]

AppFrameOf(ids) ==
    LET n == Cardinality(ids)
        order == CHOOSE s \in [1..n -> ids] : \A i, j \in 1..n : i < j => s[i] > s[j]
    IN [rows |-> IF n = 0 THEN <<>> ELSE [i \in 1..n |-> [AppRow(order[i]) EXCEPT !.idx = i]],
        ts_dtype |-> "object", met_col |-> TRUE, derived |-> FALSE, result_cols |-> FALSE]

AppFrames ==
    {AppFrameOf(ids) : ids \in {S \in SUBSET StationIds : Cardinality(S) < MaxRows}}

AppFiles ==
    {[kind |-> k, lacks |-> {}, frame |-> None] : k \in {"bad_extension", "corrupt", "not_frame"}}
    \cup {[kind |-> "frame", lacks |-> m, frame |-> AppFrameOf({1})] :
             m \in {{"wtc_AcWindSp_mean"}, {"StationId", "UK Text"}}}
    \cup {FileOf(d) : d \in AppFrames}
    \cup {FileOf([AppFrameOf({t}) EXCEPT !.ts_dtype = "unparseable"]) : t \in Turbines}

\* The uploads: the files, and the uploads that save no file.
AppUploads == AppFiles \cup {NoContents, Undecodable, Unsaved}

LayoutFiles ==
    {[kind |-> "bad_csv", lacks |-> {}, entries |-> <<>>],
     [kind |-> "frame", lacks |-> {"X-Coordinate"}, entries |-> <<>>],
     [kind |-> "frame", lacks |-> {}, entries |-> <<Entry(1, 0, 0), Entry(2, 300, 0)>>],
     [kind |-> "frame", lacks |-> {}, entries |-> <<Entry(1, 0, 0), Entry(2, 301, 0)>>],
     [kind |-> "frame", lacks |-> {}, entries |-> <<Entry(2, 0, 0)>>]}

Init ==
    /\ temp_file = NoFile
    /\ loader = NewLoader
    /\ ui = [temp_path |-> FALSE, data_store |-> FALSE]
    /\ call = NoCall
    /\ twin = NoCall
    /\ again = NoCall
    /\ response = NoResponse

Next ==
    \/ \E f \in AppUploads : HandleDataUpload(f)
    \/ RunCalculation
    \/ \E f \in LayoutFiles : ProcessUploadedLayoutFile(f)
    \/ \E t \in Turbines : UpdateAdjacentTurbinesOptions(t)

Spec == Init /\ [][Next]_vars

\* ------------------------------------------------- the adjacency lookups
\* get_adjacent_turbines(station_id) called on the loader as it is.
GetAdjacentTurbines(station_id) ==
    LET Outcome(adj) ==
            [op |-> "get_adjacent_turbines", station_id |-> station_id,
             raised |-> adj.raised, value |-> IF adj.raised THEN <<>> ELSE adj.value]
    IN /\ call' = Outcome(get_adjacent_turbines(loader, station_id))
       /\ UNCHANGED <<temp_file, loader, ui, twin, again, response>>

MaxLayout == 7

\* The places of the layouts: (180, 240) is at distance 300 of (0, 0),
\* (181, 240) is farther, and the two are at distance 1 of each other.
LayoutPoints == {<<0, 0>>, <<180, 240>>, <<181, 240>>}

\* The layouts of the turbines T1 .. Tn, in this order, each at one place.
LookupLayouts(n) ==
    {[i \in 1..n |-> Entry(i, p[i][1], p[i][2])] : p \in [1..n -> LayoutPoints]}

\* The turbine ids of the datasets, the highest first: "U9_1", "U1_9", "T9",
\* "T6" .. "T1", a missing id and "B".
LookupPool == <<91, 19, 9, 6, 5, 4, 3, 2, 1, NoId, -1>>

\* The frame with one observation of each of the ids, in the pool's order.
LookupFrame(ids) ==
    LET In(id) == id \in ids
        Rows(order) == [i \in 1..Len(order) |-> [AppRow(order[i]) EXCEPT !.idx = i]]
    IN [rows |-> Rows(SelectSeq(LookupPool, In)),
        ts_dtype |-> "object", met_col |-> TRUE, derived |-> FALSE, result_cols |-> FALSE]

\* The loader after load_pkl_data on a file that holds the frame.
LoaderOf(frame) == load_pkl_data(NewLoader, FileOf(frame)).loader

\* The ids looked up: those of the pool and "T8", which no dataset holds.
LookupStations == ({LookupPool[i] : i \in 1..Len(LookupPool)} \ {NoId}) \cup {8}

\* A loader with a dataset and no layout, or with a layout and a dataset of
\* T1, T2 and T9 or none.
InitLookup ==
    /\ \/ \E ids \in SUBSET {LookupPool[i] : i \in 1..Len(LookupPool)} :
             loader = LoaderOf(LookupFrame(ids))
       \/ \E n \in 0..MaxLayout : \E lay \in LookupLayouts(n) :
             \E base \in {NewLoader, LoaderOf(LookupFrame({1, 2, 9}))} :
                loader = [base EXCEPT !.layout_data = lay, !.layout_loaded = TRUE]
       \/ loader = NewLoader
    /\ temp_file = NoFile
    /\ ui = [temp_path |-> FALSE, data_store |-> FALSE]
    /\ call = NoCall
    /\ twin = NoCall
    /\ again = NoCall
    /\ response = NoResponse

\* One turbine is looked up, any number of times.
NextLookup ==
    \E t \in LookupStations :
        /\ IF call = NoCall THEN TRUE ELSE call.station_id = t
        /\ GetAdjacentTurbines(t)

SpecLookup == InitLookup /\ [][NextLookup]_vars

\* ------------------------------------- the assessments of one observation
\* The record of a call of _get_reference_wind_speeds.
ReferenceCall(data, timestamp, adjacent, metmast_columns) ==
    [op |-> "_get_reference_wind_speeds", data |-> data, timestamp |-> timestamp,
     adjacent |-> adjacent, metmast_columns |-> metmast_columns,
     value |-> get_reference_wind_speeds(data, timestamp, adjacent, metmast_columns)]

\* The record of a call of _assess_wind_and_sensor on a row: the references
\* it fetched and the assessment it returned.
AssessCall(data, row, adjacent, metmast_columns) ==
    LET Assessed(ref) ==
            [op |-> "_assess_wind_and_sensor", data |-> data, row |-> row,
             timestamp |-> row.TimeStamp, adjacent |-> adjacent,
             metmast_columns |-> metmast_columns, ref |-> ref,
             value |-> assess_wind_and_sensor(row.wtc_AcWindSp_mean, ref)]
    IN Assessed(get_reference_wind_speeds(data, row.TimeStamp, adjacent, metmast_columns))

\* The record of a call of _classify_single_timestamp on a row, with the rows
\* of its turbine as history.
ClassifyCall(data, row, adjacent, metmast_columns) ==
    LET SameTurbine(r) == r.StationId = row.StationId
        Classified(history) ==
            [op |-> "_classify_single_timestamp", data |-> data, row |-> row,
             history |-> history, adjacent |-> adjacent,
             metmast_columns |-> metmast_columns,
             value |-> classify_single_timestamp(row, history, data, adjacent,
                                                 metmast_columns)]
    IN Classified(SelectSeq(sort_values(data.rows), SameTurbine))

\* _get_reference_wind_speeds on the loaded data, for a timestamp and a list
\* of adjacent turbines.
GetReferenceWindSpeeds(timestamp, adjacent) ==
    /\ loader.data_loaded
    /\ call' = ReferenceCall(loader.data, timestamp, adjacent, get_metmast_columns(loader))
    /\ UNCHANGED <<temp_file, loader, ui, twin, again, response>>

\* _assess_wind_and_sensor on row i of the loaded data, with the adjacent
\* turbines and the metmast columns classify_turbine_states passes.
AssessWindAndSensor(i) ==
    /\ loader.data_loaded
    /\ \E adj \in {get_adjacent_turbines(loader, loader.data.rows[i].StationId)} :
          /\ ~adj.raised
          /\ call' = AssessCall(loader.data, loader.data.rows[i], adj.value,
                                get_metmast_columns(loader))
    /\ UNCHANGED <<temp_file, loader, ui, twin, again, response>>

\* _classify_single_timestamp on row i of the loaded data, likewise.
ClassifySingleTimestamp(i) ==
    /\ loader.data_loaded
    /\ \E adj \in {get_adjacent_turbines(loader, loader.data.rows[i].StationId)} :
          /\ ~adj.raised
          /\ call' = ClassifyCall(loader.data, loader.data.rows[i], adj.value,
                                  get_metmast_columns(loader))
    /\ UNCHANGED <<temp_file, loader, ui, twin, again, response>>

MaxAssessRows == 3

\* One observation: every missing value, with and without a metmast reading.
RuleRows == RowSet({1}, {0}, {NaN, 0, 150}, {NaN, 0, 120}, {NaN, 0, 60},
                   {NaN, 0, 60}, {NaN, 3, 5}, {NaN, 3})

\* Two observations: one with a reference or with a history.
HistoryRows == RowSet(Turbines, {0, 15}, {0, 150}, {0, 120}, {0}, {0},
                      {NaN, 3, 5}, {NaN, 3})

\* Three observations at one timestamp: readings below, at and above the
\* cut-in speed, references at every deviation.
ReferenceRows == RowSet(Turbines, {0}, {0}, {0}, {0}, {0}, {NaN, 1, 3, 4, 6}, {NaN, 5})

\* More observations: readings on both sides of the cut-in speed.
ManyRows == RowSet(Turbines, {0}, {0}, {0}, {0}, {0}, {NaN, 3, 6}, {NaN})

\* The frames of n observations the assessments are run on.
AssessFrames(n) ==
    CASE n = 1 -> FramesOf(n, RuleRows, {"datetime"}, {TRUE})
      [] n = 2 -> FramesOf(n, HistoryRows, {"datetime"}, {TRUE})
      [] n = 3 -> FramesOf(n, ReferenceRows, {"datetime"}, {TRUE, FALSE})
      [] OTHER -> FramesOf(n, ManyRows, {"datetime"}, {TRUE})

\* The timestamps and the lists of adjacent turbines of the reference calls.
ReferenceTimestamps == {0, 30, NaN}
AdjacencyLists == {<<>>, <<2>>, <<1, 2>>}

InitAssess ==
    /\ \E n \in 1..MaxAssessRows : loader \in {LoaderOf(d) : d \in AssessFrames(n)}
    /\ temp_file = NoFile
    /\ ui = [temp_path |-> FALSE, data_store |-> FALSE]
    /\ call = NoCall
    /\ twin = NoCall
    /\ again = NoCall
    /\ response = NoResponse

\* One call is made on the loaded data.
NextAssess ==
    \/ \E ts \in ReferenceTimestamps : \E adj \in AdjacencyLists :
          call = NoCall /\ GetReferenceWindSpeeds(ts, adj)
    \/ \E i \in 1..Len(loader.data.rows) : call = NoCall /\ AssessWindAndSensor(i)
    \/ \E i \in 1..Len(loader.data.rows) : call = NoCall /\ ClassifySingleTimestamp(i)

SpecAssess == InitAssess /\ [][NextAssess]_vars

\* ------------------------------------------------- the startup detector
\* The record of a call of _assess_startup_sequence on a row, with the rows
\* of its turbine (sorted by time) as history.
StartupCall(data, row) ==
    LET SameTurbine(r) == r.StationId = row.StationId
        Assessed(history) ==
            [op |-> "_assess_startup_sequence", data |-> data, row |-> row,
             history |-> history, value |-> assess_startup_sequence(row, history)]
    IN Assessed(SelectSeq(sort_values(data.rows), SameTurbine))

\* _assess_startup_sequence on row i of the loaded data.
AssessStartupSequence(i) ==
    /\ loader.data_loaded
    /\ call' = StartupCall(loader.data, loader.data.rows[i])
    /\ UNCHANGED <<temp_file, loader, ui, twin, again, response>>

\* classify_turbine_states on the loaded data, as _execute_calculation calls
\* it after the load.
ClassifyLoadedData ==
    /\ loader.data_loaded
    /\ call' = Called(loader.data, classify_turbine_states(loader.data, loader), loader)
    /\ UNCHANGED <<temp_file, loader, ui, twin, again, response>>

MaxStartupRows == 3

\* The times of the observations: 31 is 15, 16, 20, 21, 30 and 31 minutes
\* after the others.
StartupTimes == {0, 1, 10, 11, 15, 16, 31}

\* Observations of one turbine that reach the startup rule, with and without
\* low wind and alarm.
StartupRows == RowSet({1}, StartupTimes, {0}, {0, 120}, {0}, {0}, {3, 5}, {NaN})

\* Observations of two turbines, with low wind or alarm.
StartupPairRows == RowSet(Turbines, {0, 11, 16, 31}, {0}, {0, 120}, {0}, {0}, {3, 5}, {NaN})

\* More observations: low wind alone.
StartupManyRows == RowSet({1}, {0, 10, 11, 31}, {0}, {0}, {0}, {0}, {3, 5}, {NaN})

\* The frames of n observations the detector is run on.
StartupFrames(n) ==
    CASE n = 2 -> FramesOf(n, StartupPairRows, {"datetime"}, {TRUE})
      [] n = 3 -> FramesOf(n, StartupRows, {"datetime"}, {TRUE})
      [] OTHER -> FramesOf(n, StartupManyRows, {"datetime"}, {TRUE})

InitStartup ==
    /\ \E n \in 1..MaxStartupRows : loader \in {LoaderOf(d) : d \in StartupFrames(n)}
    /\ temp_file = NoFile
    /\ ui = [temp_path |-> FALSE, data_store |-> FALSE]
    /\ call = NoCall
    /\ twin = NoCall
    /\ again = NoCall
    /\ response = NoResponse

\* One call is made on the loaded data.
NextStartup ==
    \/ \E i \in 1..Len(loader.data.rows) : call = NoCall /\ AssessStartupSequence(i)
    \/ \E i \in 1..Len(loader.data.rows) : call = NoCall /\ ClassifySingleTimestamp(i)
    \/ call = NoCall /\ ClassifyLoadedData

SpecStartup == InitStartup /\ [][NextStartup]_vars

\* ------------------------------------------------------- the loads
\* load_pkl_data(file) on the loader.  The record of the call keeps the loader
\* as it was before the call and the dataset that the most recent successful
\* load stored.
LoadPklData(file) ==
    \E l \in {load_pkl_data(loader, file)} :
        /\ loader' = l.loader
        /\ call' = [op |-> "load_pkl_data", file |-> file, before |-> loader,
                    success |-> l.success, message |-> l.message,
                    loaded |-> IF l.success THEN l.loader.data
                               ELSE IF call = NoCall THEN None ELSE call.loaded]
        /\ UNCHANGED <<temp_file, ui, twin, again, response>>

\* The files of the loads: no file, and the files of the uploads.
LoadFiles == {NoFile} \cup AppFiles

NextLoad == \E f \in LoadFiles : LoadPklData(f)

SpecLoad == Init /\ [][NextLoad]_vars

\* ------------------------------------------------------------ the properties
\* The last call of classify_turbine_states returned a frame.
CallReturned == call.op = "classify_turbine_states" /\ ~call.raised

InRows == call.arg.rows
OutRows == call.value.rows

HasTurbineId(r) == r.StationId # NoId

TerminalStates ==
    {"PRODUCING", "NOT_PRODUCING_EXPLAINED", "NOT_PRODUCING_VERIFICATION_PENDING",
     "NOT_PRODUCING_UNEXPECTED"}

SubcategoryKeys ==
    {"PRODUCING", "ALARM_ACTIVE", "CURTAILMENT_ACTIVE", "CONFIRMED_LOW_WIND",
     "STARTUP_POST_LOW_WIND", "STARTUP_POST_ALARM", "SUSPECTED_LOW_WIND",
     "STARTUP_UNCLEAR", "SENSOR_ERROR_LOW", "SENSOR_ERROR_ANOMALOUS",
     "MECHANICAL_CONTROL_ISSUE", "UNKNOWN_NON_PRODUCTION"}

\* Row i of the input exceeds the production threshold / has an active alarm.
Producing(i) == Gt(InRows[i].wtc_ActPower_min, PRODUCTION_THRESHOLD_KW)
AlarmActive(i) == Gt(InRows[i].EffectiveAlarmTime, ALARM_THRESHOLD_SECONDS)

\* C1: in the frame a call returns, every row whose minimum power is above
\* the production threshold is PRODUCING with is_producing true, whatever its
\* other fields are.
C1_ProducingDominates ==
    CallReturned =>
        \A i \in 1..Len(InRows) :
            Producing(i) =>
                /\ OutRows[i].operational_state = "PRODUCING"
                /\ OutRows[i].is_producing = "True"

\* C1 for the rows that carry a turbine id.
C1_ProducingDominatesWithId ==
    CallReturned =>
        \A i \in 1..Len(InRows) :
            HasTurbineId(InRows[i]) /\ Producing(i) =>
                /\ OutRows[i].operational_state = "PRODUCING"
                /\ OutRows[i].is_producing = "True"

\* C2: in the frame a call returns, every row that is not producing and has
\* an active alarm is NOT_PRODUCING_EXPLAINED / Alarm Active, also with
\* curtailment durations above zero.
C2_AlarmOverCurtailment ==
    CallReturned =>
        \A i \in 1..Len(InRows) :
            ~Producing(i) /\ AlarmActive(i) =>
                /\ OutRows[i].operational_state = "NOT_PRODUCING_EXPLAINED"
                /\ OutRows[i].state_subcategory = Subcategory("ALARM_ACTIVE")

\* C2 for the rows that carry a turbine id.
C2_AlarmOverCurtailmentWithId ==
    CallReturned =>
        \A i \in 1..Len(InRows) :
            HasTurbineId(InRows[i]) /\ ~Producing(i) /\ AlarmActive(i) =>
                /\ OutRows[i].operational_state = "NOT_PRODUCING_EXPLAINED"
                /\ OutRows[i].state_subcategory = Subcategory("ALARM_ACTIVE")

\* The rules in their fixed order for a row, given the assessment a of its
\* wind and sensor and the assessment startup of its history: the condition
\* of each rule and the state and subcategory it assigns.
RuleTable(row, a, startup) ==
    <<[cond |-> Gt(row.wtc_ActPower_min, PRODUCTION_THRESHOLD_KW),
       state |-> "PRODUCING", key |-> "PRODUCING"],
      [cond |-> Gt(row.EffectiveAlarmTime, ALARM_THRESHOLD_SECONDS),
       state |-> "NOT_PRODUCING_EXPLAINED", key |-> "ALARM_ACTIVE"],
      [cond |-> \/ Gt(row.wtc_PowerRed_timeon, CURTAILMENT_THRESHOLD_SECONDS)
                \/ Gt(row.Duration_2006, CURTAILMENT_THRESHOLD_SECONDS),
       state |-> "NOT_PRODUCING_EXPLAINED", key |-> "CURTAILMENT_ACTIVE"],
      [cond |-> a.is_sensor_error /\ a.sensor_error_type = "SENSOR_ERROR_LOW",
       state |-> "NOT_PRODUCING_UNEXPECTED", key |-> "SENSOR_ERROR_LOW"],
      [cond |-> a.is_sensor_error /\ a.sensor_error_type = "SENSOR_ERROR_ANOMALOUS",
       state |-> "NOT_PRODUCING_UNEXPECTED", key |-> "SENSOR_ERROR_ANOMALOUS"],
      [cond |-> a.wind_condition = "CONFIRMED_LOW_WIND",
       state |-> "NOT_PRODUCING_EXPLAINED", key |-> "CONFIRMED_LOW_WIND"],
      [cond |-> startup.is_startup /\ startup.trigger = "POST_LOW_WIND",
       state |-> "NOT_PRODUCING_EXPLAINED", key |-> "STARTUP_POST_LOW_WIND"],
      [cond |-> startup.is_startup /\ startup.trigger = "POST_ALARM",
       state |-> "NOT_PRODUCING_EXPLAINED", key |-> "STARTUP_POST_ALARM"],
      [cond |-> a.wind_condition = "SUSPECTED_LOW_WIND",
       state |-> "NOT_PRODUCING_VERIFICATION_PENDING", key |-> "SUSPECTED_LOW_WIND"],
      [cond |-> a.wind_condition \in {"SUFFICIENT_CONFIRMED", "SUFFICIENT_SUSPECTED"},
       state |-> "NOT_PRODUCING_UNEXPECTED", key |-> "MECHANICAL_CONTROL_ISSUE"],
      [cond |-> TRUE,
       state |-> "NOT_PRODUCING_UNEXPECTED", key |-> "UNKNOWN_NON_PRODUCTION"]>>

FirstMatch(table) ==
    table[CHOOSE k \in 1..Len(table) :
              table[k].cond /\ \A j \in 1..(k - 1) : ~table[j].cond]

\* The first matching rule of row i of the input of the last call: its
\* references are the readings of the turbines adjacent to its own at its
\* timestamp and the metmast reading, its history the rows of its turbine.
ExpectedRule(i) ==
    LET row == InRows[i]
        SameTurbine(r) == r.StationId = row.StationId
        Adjacent(adj) == IF adj.raised THEN <<>> ELSE adj.value
    IN FirstMatch(RuleTable(row,
           assess_wind_and_sensor(row.wtc_AcWindSp_mean,
               get_reference_wind_speeds(call.arg, row.TimeStamp,
                   Adjacent(get_adjacent_turbines(call.loader, row.StationId)),
                   get_metmast_columns(call.loader))),
           assess_startup_sequence(row, SelectSeq(sort_values(InRows), SameTurbine))))

MatchesExpectedRule(i, rule) ==
    /\ OutRows[i].operational_state = rule.state
    /\ OutRows[i].state_subcategory = Subcategory(rule.key)

\* C3: in the frame a call returns, the state and subcategory of every row
\* are those of the first rule, in the fixed order, that matches the row.
C3_FirstMatchingRule ==
    CallReturned =>
        \A i \in 1..Len(InRows) : MatchesExpectedRule(i, ExpectedRule(i))

\* C3 for the rows that carry a turbine id.
C3_FirstMatchingRuleWithId ==
    CallReturned =>
        \A i \in 1..Len(InRows) :
            HasTurbineId(InRows[i]) => MatchesExpectedRule(i, ExpectedRule(i))

\* The five result cells of a row hold a terminal result.
TerminalResult(r) ==
    /\ r.operational_state \in TerminalStates
    /\ r.state_category = Category(r.operational_state)
    /\ r.state_subcategory \in {Subcategory(k) : k \in SubcategoryKeys}
    /\ r.state_reason.kind \notin {"NaN", "not_classified", "pre_classification_pending"}
    /\ r.is_producing \in {"True", "False"}

\* C4: every row of the frame a call returns carries a terminal result: one
\* of the four states, and no placeholder or missing value in a result field.
C4_EveryRowTerminal ==
    CallReturned => \A i \in 1..Len(OutRows) : TerminalResult(OutRows[i])

\* C4 for the rows that carry a turbine id.
C4_EveryRowTerminalWithId ==
    CallReturned =>
        \A i \in 1..Len(InRows) : HasTurbineId(InRows[i]) => TerminalResult(OutRows[i])

\* C5: the frame a call returns has the rows of the input in the input's
\* order: as many rows, and row i with the turbine id, the timestamp and the
\* index label of row i of the input.
C5_SameRowsSameOrder ==
    CallReturned =>
        /\ Len(OutRows) = Len(InRows)
        /\ \A i \in 1..Len(InRows) :
              /\ OutRows[i].StationId = InRows[i].StationId
              /\ OutRows[i].TimeStamp = InRows[i].TimeStamp
              /\ OutRows[i].idx = InRows[i].idx

\* C5 for the rows that carry a turbine id.
C5_SameRowsSameOrderWithId ==
    CallReturned =>
        /\ Len(OutRows) = Len(InRows)
        /\ \A i \in 1..Len(InRows) :
              /\ OutRows[i].idx = InRows[i].idx
              /\ HasTurbineId(InRows[i]) =>
                    /\ OutRows[i].StationId = InRows[i].StationId
                    /\ OutRows[i].TimeStamp = InRows[i].TimeStamp

\* C6: the frame a call returns has the five result columns, for every input
\* frame, the one with zero rows included.
C6_ResultColumnsAdded == CallReturned => call.value.result_cols

\* C6 for the frames that have rows.
C6_ResultColumnsAddedNonEmpty ==
    CallReturned /\ InRows # <<>> => call.value.result_cols

InputFields ==
    {"idx", "StationId", "TimeStamp", "wtc_ActPower_min", "EffectiveAlarmTime",
     "wtc_PowerRed_timeon", "Duration_2006", "wtc_AcWindSp_mean",
     "met_WindSpeedRot_mean_38"}

\* C7: in the frame a call returns every input cell of every row has the
\* value it has in the input, and the call leaves the caller's frame as it was.
C7_InputUnchanged ==
    CallReturned =>
        /\ \A i \in 1..Len(InRows) : \A f \in InputFields : OutRows[i][f] = InRows[i][f]
        /\ call.arg_after = call.arg

\* C7 for the rows that carry a turbine id, in frames whose timestamps are
\* datetimes already.
C7_InputUnchangedWithIdDatetime ==
    CallReturned /\ call.arg.ts_dtype = "datetime" =>
        /\ \A i \in 1..Len(InRows) :
              HasTurbineId(InRows[i]) =>
                  \A f \in InputFields : OutRows[i][f] = InRows[i][f]
        /\ call.arg_after = call.arg

\* The step is _execute_calculation on a file whose frame lacks required
\* columns.
RejectedStep ==
    /\ ui.temp_path
    /\ temp_file.kind = "frame" /\ temp_file.lacks # {}
    /\ temp_file' = NoFile

\* C8: _execute_calculation on a frame that lacks required columns fails
\* with the message that names the missing columns, leaves the loader's data
\* and its data_loaded flag as they were, classifies nothing and returns an
\* empty summary.
C8_MissingColumnsRejected ==
    [][RejectedStep =>
          /\ response'.op = "_execute_calculation"
          /\ ~response'.raised /\ ~response'.success
          /\ response'.message.kind = "missing_required_columns"
          /\ {response'.message.detail[k] : k \in 1..Len(response'.message.detail)}
                = temp_file.lacks
          /\ response'.summary = [empty |-> TRUE]
          /\ loader'.data = loader.data
          /\ loader'.data_loaded = loader.data_loaded
          /\ call' = NoCall]_vars

\* A frame lacking columns was rejected while the loader held the classified
\* frame of an earlier calculation, which it still holds.
C8_Witness ==
    /\ response.op = "_execute_calculation"
    /\ ~response.raised /\ ~response.success
    /\ response.message.kind = "missing_required_columns"
    /\ loader.data_loaded /\ loader.data.result_cols /\ loader.data.rows # <<>>

\* C9: no call of classify_turbine_states on a frame that has all required
\* columns raises.
C9_NeverRaises == call.op = "classify_turbine_states" => ~call.raised

\* C9 for the frames in which every row carries a turbine id.
C9_NeverRaisesWithIds ==
    /\ call.op = "classify_turbine_states"
    /\ \A i \in 1..Len(InRows) : HasTurbineId(InRows[i])
    => ~call.raised

\* Row i is an observation of a turbine, and the two runs' frames differ only
\* in later observations of that turbine.
OnlyLaterRowsDiffer(i) ==
    /\ HasTurbineId(InRows[i])
    /\ Len(twin.arg.rows) = Len(InRows)
    /\ \A j \in 1..Len(InRows) :
          twin.arg.rows[j] # InRows[j] =>
              /\ InRows[j].StationId = InRows[i].StationId
              /\ Lt(InRows[i].TimeStamp, InRows[j].TimeStamp)

SameClassification(r, q) ==
    /\ r.operational_state = q.operational_state
    /\ r.state_subcategory = q.state_subcategory
    /\ r.state_reason = q.state_reason

\* C10: of two runs on frames that differ only in observations of a turbine
\* later than t, both classify the turbine's row at t, with the same state,
\* subcategory and reason.
C10_TemporalCausality ==
    twin # NoCall /\ CallReturned =>
        \A i \in 1..Len(InRows) :
            OnlyLaterRowsDiffer(i) =>
                /\ ~twin.raised
                /\ SameClassification(OutRows[i], twin.value.rows[i])

\* C10 for the pairs of runs that both return.
C10_TemporalCausalityReturned ==
    twin # NoCall /\ CallReturned /\ ~twin.raised =>
        \A i \in 1..Len(InRows) :
            OnlyLaterRowsDiffer(i) =>
                SameClassification(OutRows[i], twin.value.rows[i])

\* Two runs returned, and the later observation is classified differently.
C10_Witness ==
    /\ twin # NoCall /\ CallReturned /\ ~twin.raised
    /\ \E i, j \in 1..Len(InRows) :
          /\ OnlyLaterRowsDiffer(i)
          /\ twin.arg.rows[j] # InRows[j]
          /\ OutRows[i].operational_state # "PRODUCING"
          /\ ~SameClassification(OutRows[j], twin.value.rows[j])

ResultFields ==
    {"operational_state", "state_category", "state_subcategory", "state_reason",
     "is_producing"}

\* The second call returned, with as many rows, and each row with the five
\* result cells of the first call.
SameResults ==
    /\ ~again.raised
    /\ Len(again.value.rows) = Len(OutRows)
    /\ call.value.result_cols =>
          \A i \in 1..Len(OutRows) :
              \A f \in ResultFields : again.value.rows[i][f] = OutRows[i][f]

\* C11: classify_turbine_states called again on the frame it returned gives
\* every row the state, category, subcategory, reason and is_producing of the
\* first call.
C11_ReclassificationSame == again # NoCall => SameResults

\* C11 for the frames in which every row carries a turbine id.
C11_ReclassificationSameWithIds ==
    /\ again # NoCall
    /\ \A i \in 1..Len(InRows) : HasTurbineId(InRows[i])
    => SameResults

\* A second call on a frame of two rows with a turbine id, the second told
\* from its history to be a startup, gave the results of the first.
C11_Witness ==
    /\ again # NoCall /\ SameResults
    /\ \A i \in 1..Len(InRows) : HasTurbineId(InRows[i])
    /\ \E i \in 1..Len(OutRows) :
          OutRows[i].state_subcategory = Subcategory("STARTUP_POST_LOW_WIND")

\* The last call is get_adjacent_turbines, in the layout branch.
LookupDone == call.op = "get_adjacent_turbines"

InLayout(id) ==
    \E i \in 1..Len(loader.layout_data) : loader.layout_data[i].StationId = id

LayoutMode == LookupDone /\ loader.layout_loaded /\ InLayout(call.station_id)

\* The position of the first entry of the turbine in the layout.
PositionOf(id) ==
    CHOOSE i \in 1..Len(loader.layout_data) :
        /\ loader.layout_data[i].StationId = id
        /\ \A j \in 1..(i - 1) : loader.layout_data[j].StationId # id

\* The squared distance of the turbine to the target of the last call.
ToTarget(id) ==
    Distance2(loader.layout_data[PositionOf(id)],
              loader.layout_data[PositionOf(call.station_id)])

WithinThreshold(id) ==
    ToTarget(id) <= ADJACENCY_DISTANCE_THRESHOLD * ADJACENCY_DISTANCE_THRESHOLD

Returns(id) == \E k \in 1..Len(call.value) : call.value[k] = id

\* C12: in the layout branch get_adjacent_turbines returns other turbines of
\* the layout only, each within the distance threshold of the target, at most
\* MAX_ADJACENT_TURBINES of them, the closest first and ties in layout order,
\* and no turbine within the threshold that it leaves out is strictly closer
\* than one it returns.
C12_LayoutAdjacency ==
    LayoutMode =>
        /\ ~call.raised
        /\ Len(call.value) <= MAX_ADJACENT_TURBINES
        /\ \A k \in 1..Len(call.value) :
              /\ call.value[k] # call.station_id
              /\ InLayout(call.value[k])
              /\ WithinThreshold(call.value[k])
        /\ \A k, l \in 1..Len(call.value) :
              k < l =>
                 \/ ToTarget(call.value[k]) < ToTarget(call.value[l])
                 \/ /\ ToTarget(call.value[k]) = ToTarget(call.value[l])
                    /\ PositionOf(call.value[k]) < PositionOf(call.value[l])
        /\ \A i \in 1..Len(loader.layout_data) :
              LET id == loader.layout_data[i].StationId
              IN id # call.station_id /\ WithinThreshold(id) /\ ~Returns(id) =>
                    \A k \in 1..Len(call.value) : ToTarget(id) >= ToTarget(call.value[k])

\* A layout lookup returned five turbines, two of them at the same distance
\* and two at different distances, left out a turbine within the threshold,
\* and returned a turbine that comes later in the layout before a farther one
\* that comes earlier.
C12_Witness ==
    /\ LayoutMode
    /\ Len(call.value) = MAX_ADJACENT_TURBINES
    /\ \E k, l \in 1..Len(call.value) :
          /\ k < l
          /\ ToTarget(call.value[k]) < ToTarget(call.value[l])
          /\ PositionOf(call.value[k]) > PositionOf(call.value[l])
    /\ \E k, l \in 1..Len(call.value) :
          k < l /\ ToTarget(call.value[k]) = ToTarget(call.value[l])
    /\ \E i \in 1..Len(loader.layout_data) :
          LET id == loader.layout_data[i].StationId
          IN id # call.station_id /\ WithinThreshold(id) /\ ~Returns(id)

\* The step keeps the loaded dataset.
KeepsDataset == loader.data_loaded /\ loader'.data_loaded /\ loader'.data = loader.data

\* The turbines of the dataset the loader holds.
TurbinesOf(ld) == {t \in Turbines : \E i \in 1..Len(ld.data.rows) : ld.data.rows[i].StationId = t}

\* C13: the adjacency list of a turbine of the loaded dataset is stable while
\* the dataset is loaded: right after the dataset is classified a lookup gives
\* the list the classification used, and no later step that keeps the dataset
\* (a layout upload, a lookup from the UI) changes the list a lookup gives.
C13_AdjacencyStable ==
    [][/\ (response'.op = "_execute_calculation" /\ call'.op = "classify_turbine_states"
             /\ ~call'.raised /\ loader'.data_loaded) =>
              \A t \in TurbinesOf(loader') :
                  get_adjacent_turbines(loader', t) = get_adjacent_turbines(call'.loader, t)
       /\ KeepsDataset =>
              \A t \in TurbinesOf(loader) :
                  get_adjacent_turbines(loader', t) = get_adjacent_turbines(loader, t)]_vars

\* The last call is get_adjacent_turbines, in the fallback branch.
FallbackMode == LookupDone /\ ~(loader.layout_loaded /\ InLayout(call.station_id))

\* The first and the last run of digits of an id that holds a digit.
FirstInteger(id) == IF id < 10 THEN id ELSE id \div 10
TrailingInteger(id) == IF id < 10 THEN id ELSE id % 10

\* C14 as stated: in the fallback branch, for a target whose id holds a digit,
\* get_adjacent_turbines returns at most MAX_ADJACENT_TURBINES turbines, each
\* another turbine whose trailing integer is within MAX_ADJACENT_TURBINES of
\* the target's trailing integer.
C14_TrailingIntegerNear ==
    FallbackMode /\ ~call.raised /\ HasDigits(call.station_id) =>
        /\ Len(call.value) <= MAX_ADJACENT_TURBINES
        /\ \A k \in 1..Len(call.value) :
              /\ call.value[k] # call.station_id
              /\ HasDigits(call.value[k])
              /\ Abs(TrailingInteger(call.value[k]) - TrailingInteger(call.station_id))
                    <= MAX_ADJACENT_TURBINES

\* C14 amended: the integer compared is the first run of digits of each id.
C14_FirstIntegerNear ==
    FallbackMode /\ ~call.raised /\ HasDigits(call.station_id) =>
        /\ Len(call.value) <= MAX_ADJACENT_TURBINES
        /\ \A k \in 1..Len(call.value) :
              /\ call.value[k] # call.station_id
              /\ HasDigits(call.value[k])
              /\ Abs(FirstInteger(call.value[k]) - FirstInteger(call.station_id))
                    <= MAX_ADJACENT_TURBINES

\* A fallback lookup of "U1_9" returned five turbines, among them "T1", and
\* the dataset holds "U9_1" and "B", which it did not return.
C14_Witness ==
    /\ FallbackMode /\ ~call.raised
    /\ call.station_id = 19
    /\ Len(call.value) = MAX_ADJACENT_TURBINES
    /\ Returns(1)
    /\ \E i, j \in 1..Len(loader.data.rows) :
          loader.data.rows[i].StationId = 91 /\ loader.data.rows[j].StationId = -1
    /\ ~Returns(91) /\ ~Returns(-1)

\* The turbine ids of the loaded dataset in order of appearance, none when no
\* dataset is loaded.
DatasetIds ==
    LET HasId(x) == x # NoId
    IN IF loader.data_loaded
       THEN SelectSeq(Unique(Column(loader.data.rows, "StationId")), HasId)
       ELSE <<>>

InDataset(id) == \E i \in 1..Len(DatasetIds) : DatasetIds[i] = id

\* The other turbines of the dataset, in the dataset's order.
OtherTurbines ==
    LET Other(t) == t # call.station_id
    IN SelectSeq(DatasetIds, Other)

\* The last lookup has no candidate: in the layout branch no other turbine
\* is within the threshold; in the fallback branch the target is not a turbine
\* of the loaded dataset, or is its only turbine.
NoCandidate ==
    IF LayoutMode
    THEN \A i \in 1..Len(loader.layout_data) :
            LET id == loader.layout_data[i].StationId
            IN id = call.station_id \/ ~WithinThreshold(id)
    ELSE ~InDataset(call.station_id) \/ OtherTurbines = <<>>

FailsSoft ==
    /\ ~call.raised
    /\ FallbackMode /\ InDataset(call.station_id) /\ ~HasDigits(call.station_id) =>
          call.value = Take(OtherTurbines, MAX_ADJACENT_TURBINES)
    /\ NoCandidate => call.value = <<>>

\* C15: get_adjacent_turbines never raises; in the fallback branch, for a
\* target whose id holds no digit, it returns the first MAX_ADJACENT_TURBINES
\* other turbines in the dataset's order; and in every branch it returns the
\* empty list when there is no candidate.
C15_FallbackFailsSoft == LookupDone => FailsSoft

\* C15 for the loaders whose dataset does not mix rows without turbine id
\* with rows of turbines.
C15_FallbackFailsSoftWithIds ==
    /\ LookupDone
    /\ ~(loader.data_loaded /\ SortedRaises(Unique(Column(loader.data.rows, "StationId"))))
    => FailsSoft

\* The lookup of "B" returned five of the six other turbines of the dataset.
C15_Witness ==
    /\ LookupDone /\ FailsSoft
    /\ call.station_id = -1 /\ InDataset(-1)
    /\ Len(OtherTurbines) > MAX_ADJACENT_TURBINES
    /\ Len(call.value) = MAX_ADJACENT_TURBINES

\* ---- C16: the references of a timestamp
ReferencesDone == call.op \in {"_get_reference_wind_speeds", "_assess_wind_and_sensor"}

\* The references the call fetched.
ReferencesOf == IF call.op = "_get_reference_wind_speeds" THEN call.value ELSE call.ref

\* The rows of the call's data at the call's timestamp.
RowsAt ==
    {i \in 1..Len(call.data.rows) :
        call.timestamp # NaN /\ call.data.rows[i].TimeStamp = call.timestamp}

ReadingsOf(t) ==
    {i \in RowsAt : /\ call.data.rows[i].StationId = t
                    /\ call.data.rows[i].wtc_AcWindSp_mean # NaN}

\* The adjacent turbines with a reading at the timestamp, and the metmast
\* columns with one.
AdjacentWithReading ==
    {t \in {call.adjacent[k] : k \in 1..Len(call.adjacent)} : ReadingsOf(t) # {}}

MetmastReadings == {i \in RowsAt : call.data.rows[i].met_WindSpeedRot_mean_38 # NaN}

MetmastWithReading ==
    {c \in call.metmast_columns : call.data.met_col /\ MetmastReadings # {}}

RECURSIVE SumOfReadings(_, _)
SumOfReadings(f, S) ==
    IF S = {} THEN 0
    ELSE LET t == CHOOSE t \in S : TRUE
         IN call.data.rows[f[t]].wtc_AcWindSp_mean + SumOfReadings(f, S \ {t})

\* The sum is the sum of one reading of each adjacent turbine that has one and
\* of one reading of each metmast column that has one.
OneValueEach ==
    \E f \in [AdjacentWithReading -> RowsAt] :
        /\ \A t \in AdjacentWithReading : f[t] \in ReadingsOf(t)
        /\ IF MetmastWithReading = {}
           THEN ReferencesOf.sum = SumOfReadings(f, AdjacentWithReading)
           ELSE \E m \in MetmastReadings :
                   ReferencesOf.sum = SumOfReadings(f, AdjacentWithReading)
                                        + call.data.rows[m].met_WindSpeedRot_mean_38

ReferencesCounted ==
    /\ ReferencesOf.count = Cardinality(AdjacentWithReading) + Cardinality(MetmastWithReading)
    /\ OneValueEach
    /\ ReferencesOf.count = 0 => ReferencesOf.sum = 0
    /\ call.op = "_assess_wind_and_sensor" =>
          \A k \in 1..Len(call.adjacent) : call.adjacent[k] # call.row.StationId

\* No two rows of the call's data are of the same turbine at the same timestamp.
OneRowPerObservation ==
    \A i, j \in 1..Len(call.data.rows) :
        /\ call.data.rows[i].StationId = call.data.rows[j].StationId
        /\ call.data.rows[i].TimeStamp = call.data.rows[j].TimeStamp
        => i = j

\* C16: the count of _get_reference_wind_speeds is the number of adjacent
\* turbines with a reading at the timestamp plus the number of metmast columns
\* with a reading at the timestamp, the mean is the mean of one value of each
\* of them, the target's own reading is not among them, and without a row or
\* a value the count and the mean are 0.
C16_ReferencesCounted == ReferencesDone => ReferencesCounted

\* C16 for the datasets that hold one row per turbine and timestamp.
C16_ReferencesCountedOneRow == ReferencesDone /\ OneRowPerObservation => ReferencesCounted

\* Two adjacent readings and a metmast reading were averaged.
C16_Witness ==
    /\ ReferencesDone /\ OneRowPerObservation /\ ReferencesCounted
    /\ Cardinality(AdjacentWithReading) = 2
    /\ Cardinality(MetmastWithReading) = 1
    /\ ReferencesOf.count = 3

\* ---- C17: the sensor error of a reading with references
AssessDone == call.op = "_assess_wind_and_sensor"

\* The reading w and the references (count c, sum r * c) of the assessment.
ReadingWithReferences ==
    AssessDone /\ call.row.wtc_AcWindSp_mean # NaN /\ call.ref.count > 0

\* w - r and r - w, times c.
ReadingAbove == call.row.wtc_AcWindSp_mean * call.ref.count - call.ref.sum
ReadingBelow == call.ref.sum - call.row.wtc_AcWindSp_mean * call.ref.count

\* threshold times c.
Tolerance == WIND_SPEED_DEVIATION_THRESHOLD * call.ref.count

\* C17: with a reading w and references of mean r, _assess_wind_and_sensor
\* flags a sensor error exactly when |w - r| > threshold (a deviation equal to
\* the threshold is no error); the type is SENSOR_ERROR_LOW when
\* w < r - threshold and SENSOR_ERROR_ANOMALOUS otherwise, when
\* w > r + threshold.
C17_DeviationFlagged ==
    ReadingWithReferences =>
        /\ call.value.is_sensor_error <=> (ReadingAbove > Tolerance \/ ReadingBelow > Tolerance)
        /\ ReadingBelow > Tolerance => call.value.sensor_error_type = "SENSOR_ERROR_LOW"
        /\ ReadingAbove > Tolerance => call.value.sensor_error_type = "SENSOR_ERROR_ANOMALOUS"
        /\ call.value.sensor_error_type = "SENSOR_ERROR_ANOMALOUS" => ReadingAbove > Tolerance
        /\ call.value.sensor_error_type = "SENSOR_ERROR_LOW" => ReadingBelow > Tolerance

\* A reading that deviates from the mean of two references by exactly the
\* threshold was assessed and not flagged.
C17_Witness ==
    /\ ReadingWithReferences
    /\ call.ref.count = 2
    /\ ReadingBelow = Tolerance
    /\ ~call.value.is_sensor_error

\* ---- C18: the wind condition of a flagged assessment
\* C18: when _assess_wind_and_sensor flags a sensor error, its wind_condition
\* is CONFIRMED_LOW_WIND if there are references and their mean is below the
\* cut-in speed, SUFFICIENT_CONFIRMED if there are references and their mean
\* is at least the cut-in speed, SUFFICIENT_SUSPECTED if there is none;
\* the reading has no part in it.
C18_FlaggedWindFromReferences ==
    AssessDone /\ call.value.is_sensor_error =>
        call.value.wind_condition =
            IF call.ref.count = 0 THEN "SUFFICIENT_SUSPECTED"
            ELSE IF call.ref.sum < CUT_IN_WIND_SPEED * call.ref.count
                 THEN "CONFIRMED_LOW_WIND"
                 ELSE "SUFFICIENT_CONFIRMED"

\* A reading above the cut-in speed was flagged against references below it.
C18_Witness ==
    /\ AssessDone /\ call.value.is_sensor_error
    /\ call.row.wtc_AcWindSp_mean >= CUT_IN_WIND_SPEED
    /\ call.ref.count > 0
    /\ call.ref.sum < CUT_IN_WIND_SPEED * call.ref.count
    /\ call.value.wind_condition = "CONFIRMED_LOW_WIND"

\* ---- C19: the wind condition of an assessment that is not flagged
WindConditions ==
    {"CONFIRMED_LOW_WIND", "SUSPECTED_LOW_WIND", "SUFFICIENT_CONFIRMED", "SUFFICIENT_SUSPECTED"}

ReadingIsLow == call.row.wtc_AcWindSp_mean < CUT_IN_WIND_SPEED
ReferencesAreLow == call.ref.sum < CUT_IN_WIND_SPEED * call.ref.count

\* C19: for a reading w that is not flagged, _assess_wind_and_sensor returns,
\* with references of mean r, CONFIRMED_LOW_WIND if w < cut-in and r < cut-in,
\* SUSPECTED_LOW_WIND if w < cut-in and r >= cut-in, SUFFICIENT_CONFIRMED if
\* w >= cut-in; without references, SUSPECTED_LOW_WIND if w < cut-in and
\* SUFFICIENT_SUSPECTED if w >= cut-in, and no sensor error; and the
\* wind_condition of every assessment is one of the four values.
C19_UnflaggedWindCondition ==
    AssessDone =>
        /\ call.value.wind_condition \in WindConditions
        /\ call.row.wtc_AcWindSp_mean # NaN /\ call.ref.count = 0 =>
              ~call.value.is_sensor_error
        /\ call.row.wtc_AcWindSp_mean # NaN /\ ~call.value.is_sensor_error =>
              /\ call.value.sensor_error_type = "None"
              /\ call.value.wind_condition =
                    IF call.ref.count > 0
                    THEN IF ReadingIsLow
                         THEN IF ReferencesAreLow THEN "CONFIRMED_LOW_WIND"
                                                  ELSE "SUSPECTED_LOW_WIND"
                         ELSE "SUFFICIENT_CONFIRMED"
                    ELSE IF ReadingIsLow THEN "SUSPECTED_LOW_WIND"
                                         ELSE "SUFFICIENT_SUSPECTED"

\* A reading below the cut-in speed was assessed against references whose
\* mean is exactly the cut-in speed.
C19_Witness ==
    /\ AssessDone /\ ~call.value.is_sensor_error
    /\ call.row.wtc_AcWindSp_mean # NaN /\ ReadingIsLow
    /\ call.ref.count > 0
    /\ call.ref.sum = CUT_IN_WIND_SPEED * call.ref.count
    /\ call.value.wind_condition = "SUSPECTED_LOW_WIND"

\* ---- C20: missing values in the rule chain
ClassifyDone == call.op = "_classify_single_timestamp"

PowerMissing == call.row.wtc_ActPower_min = NaN
AlarmMissing == call.row.EffectiveAlarmTime = NaN
ExternalMissing == call.row.wtc_PowerRed_timeon = NaN
InternalMissing == call.row.Duration_2006 = NaN
WindMissing == call.row.wtc_AcWindSp_mean = NaN

\* The row is resolved by rule 1, 2 or 3.
ResolvedEarly ==
    \/ ~PowerMissing /\ call.row.wtc_ActPower_min > PRODUCTION_THRESHOLD_KW
    \/ ~AlarmMissing /\ call.row.EffectiveAlarmTime > ALARM_THRESHOLD_SECONDS
    \/ ~ExternalMissing /\ call.row.wtc_PowerRed_timeon > CURTAILMENT_THRESHOLD_SECONDS
    \/ ~InternalMissing /\ call.row.Duration_2006 > CURTAILMENT_THRESHOLD_SECONDS

\* C20: _classify_single_timestamp never returns PRODUCING for a row whose
\* minimum power is missing, never ALARM_ACTIVE for a row whose alarm duration
\* is missing, never CURTAILMENT_ACTIVE on account of a missing curtailment
\* duration, and returns NOT_PRODUCING_UNEXPECTED / SENSOR_ERROR_ANOMALOUS for
\* every row that rules 1-3 do not resolve and whose wind reading is missing,
\* with or without references and whatever the history.
C20_MissingValuesAbsorbed ==
    ClassifyDone =>
        /\ PowerMissing =>
              call.value.state # "PRODUCING" /\ ~call.value.is_producing
        /\ AlarmMissing => call.value.subcategory # Subcategory("ALARM_ACTIVE")
        /\ call.value.subcategory = Subcategory("CURTAILMENT_ACTIVE") =>
              \/ ~ExternalMissing
                   /\ call.row.wtc_PowerRed_timeon > CURTAILMENT_THRESHOLD_SECONDS
              \/ ~InternalMissing
                   /\ call.row.Duration_2006 > CURTAILMENT_THRESHOLD_SECONDS
        /\ WindMissing /\ ~ResolvedEarly =>
              /\ call.value.state = "NOT_PRODUCING_UNEXPECTED"
              /\ call.value.subcategory = Subcategory("SENSOR_ERROR_ANOMALOUS")
              /\ ~call.value.is_producing

\* A row with every value missing but the metmast reading was classified
\* a sensor error.
C20_Witness ==
    /\ ClassifyDone
    /\ PowerMissing /\ AlarmMissing /\ ExternalMissing /\ InternalMissing /\ WindMissing
    /\ call.row.met_WindSpeedRot_mean_38 # NaN
    /\ call.value.subcategory = Subcategory("SENSOR_ERROR_ANOMALOUS")

\* ---- C21: the startup boundary after low wind
StartupDone == call.op = "_assess_startup_sequence"

\* The observations of the row's turbine, the row included, and their age in
\* minutes at the time of the row.
Observations == {k \in 1..Len(call.history) : call.history[k].TimeStamp # NaN}
AgeOf(k) == call.row.TimeStamp - call.history[k].TimeStamp

\* The ages of the earlier observations with low wind, and with an alarm.
LowWindAges ==
    {AgeOf(k) : k \in {o \in Observations :
                         /\ call.row.TimeStamp # NaN /\ AgeOf(o) > 0
                         /\ call.history[o].wtc_AcWindSp_mean # NaN
                         /\ call.history[o].wtc_AcWindSp_mean < CUT_IN_WIND_SPEED}}

AlarmAges ==
    {AgeOf(k) : k \in {o \in Observations :
                         /\ call.row.TimeStamp # NaN /\ AgeOf(o) > 0
                         /\ call.history[o].EffectiveAlarmTime # NaN
                         /\ call.history[o].EffectiveAlarmTime > 0}}

\* The age of the most recent of them.
Youngest(ages) == CHOOSE a \in ages : \A b \in ages : a <= b

AfterLowWind == LowWindAges # {} /\ Youngest(LowWindAges) <= POST_LOW_WIND_MINUTES
AfterAlarm == AlarmAges # {} /\ Youngest(AlarmAges) <= POST_ALARM_MINUTES

\* The row was classified by the startup rule or a later one.
ReachesStartupRule ==
    /\ call.op = "_classify_single_timestamp"
    /\ call.value.subcategory \notin
          {Subcategory(key) : key \in {"PRODUCING", "ALARM_ACTIVE", "CURTAILMENT_ACTIVE",
                                        "SENSOR_ERROR_LOW", "SENSOR_ERROR_ANOMALOUS",
                                        "CONFIRMED_LOW_WIND"}}

\* C21: when the most recent earlier observation of the turbine with wind
\* below the cut-in speed is 20 minutes old or less, the detector reports a
\* startup with trigger POST_LOW_WIND; when it is 21 minutes old or more,
\* POST_LOW_WIND is not reported, the alarm check decides, and a row that
\* is no startup goes to the later rules.
C21_LowWindBoundary ==
    /\ StartupDone /\ AfterLowWind =>
          call.value.is_startup /\ call.value.trigger = "POST_LOW_WIND"
    /\ StartupDone /\ LowWindAges # {}
          /\ Youngest(LowWindAges) >= POST_LOW_WIND_MINUTES + 1 =>
          /\ call.value.trigger # "POST_LOW_WIND"
          /\ call.value.is_startup <=> AfterAlarm
    /\ ReachesStartupRule /\ AfterLowWind =>
          call.value.subcategory = Subcategory("STARTUP_POST_LOW_WIND")
    /\ ReachesStartupRule /\ LowWindAges # {}
          /\ Youngest(LowWindAges) >= POST_LOW_WIND_MINUTES + 1 =>
          /\ call.value.subcategory # Subcategory("STARTUP_POST_LOW_WIND")
          /\ ~AfterAlarm => call.value.subcategory \in
                {Subcategory("SUSPECTED_LOW_WIND"), Subcategory("MECHANICAL_CONTROL_ISSUE")}

\* Low wind exactly 20 minutes before the row was reported as POST_LOW_WIND.
C21_Witness ==
    /\ StartupDone
    /\ LowWindAges # {} /\ Youngest(LowWindAges) = POST_LOW_WIND_MINUTES
    /\ call.value.trigger = "POST_LOW_WIND"

\* ---- C22: the startup boundary after an alarm
\* C22: for a row that does not qualify as POST_LOW_WIND, the detector
\* reports a startup with trigger POST_ALARM exactly when the most recent
\* earlier observation of the turbine with an alarm is at most 15 minutes
\* old; at 16 minutes or more it reports no startup.
C22_AlarmBoundary ==
    /\ StartupDone /\ ~AfterLowWind =>
          /\ call.value.is_startup <=> AfterAlarm
          /\ call.value.trigger = IF AfterAlarm THEN "POST_ALARM" ELSE "None"
    /\ StartupDone /\ ~AfterLowWind /\ AlarmAges # {}
          /\ Youngest(AlarmAges) >= POST_ALARM_MINUTES + 1 =>
          ~call.value.is_startup
    /\ ReachesStartupRule /\ ~AfterLowWind =>
          (call.value.subcategory = Subcategory("STARTUP_POST_ALARM")) <=> AfterAlarm

\* An alarm exactly 15 minutes before the row was reported as POST_ALARM.
C22_Witness ==
    /\ StartupDone /\ ~AfterLowWind
    /\ AlarmAges # {} /\ Youngest(AlarmAges) = POST_ALARM_MINUTES
    /\ call.value.trigger = "POST_ALARM"

\* ---- C23: low wind before alarm
\* C23: when the look-back window holds low wind at most 20 minutes old and
\* an alarm at most 15 minutes old, the detector reports POST_LOW_WIND and the
\* row it decides is STARTUP_POST_LOW_WIND; no such row is
\* STARTUP_POST_ALARM, whichever event is the more recent.
C23_LowWindBeforeAlarm ==
    /\ call.op \in {"_assess_startup_sequence", "_classify_single_timestamp"}
    /\ AfterLowWind /\ AfterAlarm
    =>
        /\ StartupDone => call.value.trigger = "POST_LOW_WIND"
        /\ call.op = "_classify_single_timestamp" =>
              call.value.subcategory # Subcategory("STARTUP_POST_ALARM")
        /\ ReachesStartupRule =>
              /\ call.value.state = "NOT_PRODUCING_EXPLAINED"
              /\ call.value.subcategory = Subcategory("STARTUP_POST_LOW_WIND")

\* A row with an alarm 15 minutes before it and low wind 20 minutes before it
\* was classified STARTUP_POST_LOW_WIND.
C23_Witness ==
    /\ ReachesStartupRule
    /\ AfterLowWind /\ AfterAlarm
    /\ Youngest(AlarmAges) < Youngest(LowWindAges)
    /\ call.value.subcategory = Subcategory("STARTUP_POST_LOW_WIND")

\* ---- C24: curtailment
ExternalCurtailment(i) ==
    InRows[i].wtc_PowerRed_timeon # NaN /\ InRows[i].wtc_PowerRed_timeon > 0
InternalCurtailment(i) ==
    InRows[i].Duration_2006 # NaN /\ InRows[i].Duration_2006 > 0

CurtailmentDecided(i) ==
    /\ (OutRows[i].state_subcategory = Subcategory("CURTAILMENT_ACTIVE"))
          <=> (ExternalCurtailment(i) \/ InternalCurtailment(i))
    /\ ExternalCurtailment(i) => OutRows[i].state_reason.kind = "external_curtailment"
    /\ InternalCurtailment(i) /\ ~ExternalCurtailment(i) =>
          OutRows[i].state_reason.kind = "internal_curtailment"

\* C24: in the frame a call returns, a row that is not producing and has
\* no active alarm is Curtailment Active exactly when its external or its
\* internal curtailment duration is above zero; the reason names the external
\* curtailment whenever the external duration is above zero and the internal
\* one only when the internal duration alone is.
C24_CurtailmentActive ==
    CallReturned =>
        \A i \in 1..Len(InRows) :
            ~Producing(i) /\ ~AlarmActive(i) => CurtailmentDecided(i)

\* C24 for the rows that carry a turbine id.
C24_CurtailmentActiveWithId ==
    CallReturned =>
        \A i \in 1..Len(InRows) :
            HasTurbineId(InRows[i]) /\ ~Producing(i) /\ ~AlarmActive(i) =>
                CurtailmentDecided(i)

\* A row with both durations above zero was classified with the external
\* reason.
C24_Witness ==
    /\ CallReturned
    /\ \E i \in 1..Len(InRows) :
          /\ HasTurbineId(InRows[i]) /\ ~Producing(i) /\ ~AlarmActive(i)
          /\ ExternalCurtailment(i) /\ InternalCurtailment(i)
          /\ OutRows[i].state_subcategory = Subcategory("CURTAILMENT_ACTIVE")
          /\ OutRows[i].state_reason.kind = "external_curtailment"

\* ---- C25: the rules are exhaustive
\* The results of rules 1 to 9.
RuleResults ==
    {<<"PRODUCING", Subcategory("PRODUCING")>>,
     <<"NOT_PRODUCING_EXPLAINED", Subcategory("ALARM_ACTIVE")>>,
     <<"NOT_PRODUCING_EXPLAINED", Subcategory("CURTAILMENT_ACTIVE")>>,
     <<"NOT_PRODUCING_UNEXPECTED", Subcategory("SENSOR_ERROR_LOW")>>,
     <<"NOT_PRODUCING_UNEXPECTED", Subcategory("SENSOR_ERROR_ANOMALOUS")>>,
     <<"NOT_PRODUCING_EXPLAINED", Subcategory("CONFIRMED_LOW_WIND")>>,
     <<"NOT_PRODUCING_EXPLAINED", Subcategory("STARTUP_POST_LOW_WIND")>>,
     <<"NOT_PRODUCING_EXPLAINED", Subcategory("STARTUP_POST_ALARM")>>,
     <<"NOT_PRODUCING_VERIFICATION_PENDING", Subcategory("SUSPECTED_LOW_WIND")>>,
     <<"NOT_PRODUCING_UNEXPECTED", Subcategory("MECHANICAL_CONTROL_ISSUE")>>}

ByARule(i) ==
    /\ OutRows[i].state_subcategory # Subcategory("UNKNOWN_NON_PRODUCTION")
    /\ OutRows[i].state_subcategory # Subcategory("STARTUP_UNCLEAR")
    /\ <<OutRows[i].operational_state, OutRows[i].state_subcategory>> \in RuleResults

\* C25: in the frame a call returns, no row is Unknown Non-Production, no row
\* is Startup Sequence (Trigger Unclear), and the state and subcategory of
\* every row are those of one of the rules 1 to 9.
C25_RulesExhaustive ==
    CallReturned => \A i \in 1..Len(InRows) : ByARule(i)

\* C25 for the rows that carry a turbine id.
C25_RulesExhaustiveWithId ==
    CallReturned => \A i \in 1..Len(InRows) : HasTurbineId(InRows[i]) => ByARule(i)

\* A row with sufficient wind, no reference and no history was classified by
\* rule 9, the last one.
C25_Witness ==
    /\ CallReturned
    /\ \E i \in 1..Len(InRows) :
          /\ HasTurbineId(InRows[i])
          /\ <<OutRows[i].operational_state, OutRows[i].state_subcategory>>
                = <<"NOT_PRODUCING_UNEXPECTED", Subcategory("MECHANICAL_CONTROL_ISSUE")>>

\* ---- C29: the result fields agree
SubcategoriesOf(state) ==
    CASE state = "PRODUCING" -> {Subcategory("PRODUCING")}
      [] state = "NOT_PRODUCING_EXPLAINED" ->
           {Subcategory(key) : key \in {"ALARM_ACTIVE", "CURTAILMENT_ACTIVE",
                                         "CONFIRMED_LOW_WIND", "STARTUP_POST_LOW_WIND",
                                         "STARTUP_POST_ALARM"}}
      [] state = "NOT_PRODUCING_VERIFICATION_PENDING" ->
           {Subcategory("SUSPECTED_LOW_WIND")}
      [] state = "NOT_PRODUCING_UNEXPECTED" ->
           {Subcategory(key) : key \in {"SENSOR_ERROR_LOW", "SENSOR_ERROR_ANOMALOUS",
                                         "MECHANICAL_CONTROL_ISSUE"}}
      [] OTHER -> {}

FieldsConsistent(i) ==
    /\ (OutRows[i].is_producing = "True") <=> (OutRows[i].operational_state = "PRODUCING")
    /\ (OutRows[i].operational_state = "PRODUCING")
          <=> (InRows[i].wtc_ActPower_min # NaN
                 /\ InRows[i].wtc_ActPower_min > PRODUCTION_THRESHOLD_KW)
    /\ OutRows[i].state_subcategory \in SubcategoriesOf(OutRows[i].operational_state)
    /\ OutRows[i].state_category = Category(OutRows[i].operational_state)

\* C29: in the frame a call returns, is_producing is true exactly for the
\* PRODUCING rows, which are the rows whose minimum power is above the
\* production threshold, and the subcategory of every row is one of the
\* subcategories of its state.
C29_FieldsConsistent ==
    CallReturned => \A i \in 1..Len(InRows) : FieldsConsistent(i)

\* C29 for the rows that carry a turbine id.
C29_FieldsConsistentWithId ==
    CallReturned => \A i \in 1..Len(InRows) : HasTurbineId(InRows[i]) => FieldsConsistent(i)

\* A frame with a producing row and a row that is not was classified.
C29_Witness ==
    /\ CallReturned
    /\ \E i, j \in 1..Len(InRows) :
          /\ HasTurbineId(InRows[i]) /\ HasTurbineId(InRows[j])
          /\ OutRows[i].is_producing = "True" /\ FieldsConsistent(i)
          /\ OutRows[j].is_producing = "False" /\ FieldsConsistent(j)

\* ---- C26: the masks and the per-row rules
\* What the masks of steps 1 to 3 assign to the row of the call.
ByMasks == VectorizedSteps(call.row)

EarlyResults ==
    {Subcategory(key) : key \in {"PRODUCING", "ALARM_ACTIVE", "CURTAILMENT_ACTIVE"}}

\* C26: for every row, the masks of classify_turbine_states assign the
\* state, category, subcategory and is_producing that
\* _classify_single_timestamp returns for the row, and for a row the masks
\* leave UNCLASSIFIED _classify_single_timestamp returns none of PRODUCING,
\* ALARM_ACTIVE and CURTAILMENT_ACTIVE.
C26_MasksAgreeWithRules ==
    ClassifyDone =>
        IF ByMasks.operational_state = "UNCLASSIFIED"
        THEN /\ call.value.subcategory \notin EarlyResults
             /\ call.value.state # "PRODUCING"
        ELSE /\ ByMasks.operational_state = call.value.state
             /\ ByMasks.state_category = call.value.category
             /\ ByMasks.state_subcategory = call.value.subcategory
             /\ ByMasks.is_producing = IF call.value.is_producing THEN "True" ELSE "False"

\* A row with a missing external and a positive internal curtailment duration
\* was classified the same by the masks and by the per-row rules.
C26_Witness ==
    /\ ClassifyDone
    /\ call.row.wtc_PowerRed_timeon = NaN
    /\ call.row.Duration_2006 # NaN /\ call.row.Duration_2006 > 0
    /\ ByMasks.state_subcategory = Subcategory("CURTAILMENT_ACTIVE")
    /\ call.value.subcategory = Subcategory("CURTAILMENT_ACTIVE")

\* ---- C27: the look-back window
\* The ages of the observations of the turbine, the row included, with low
\* wind and with an alarm.
AgesWithLowWind ==
    {AgeOf(k) : k \in {o \in Observations :
                         /\ call.history[o].wtc_AcWindSp_mean # NaN
                         /\ call.history[o].wtc_AcWindSp_mean < CUT_IN_WIND_SPEED}}

AgesWithAlarm ==
    {AgeOf(k) : k \in {o \in Observations :
                         /\ call.history[o].EffectiveAlarmTime # NaN
                         /\ call.history[o].EffectiveAlarmTime > 0}}

\* The part of the ages that lies in the window of the last n minutes, the
\* time of the row excluded.
InWindow(ages, n) == {a \in ages : 0 < a /\ a <= n}

\* C27: the outcome of the detector for a row at time t is decided by the
\* observations of the turbine in [t - 20 min, t) with low wind and in
\* [t - 15 min, t) with an alarm: a startup exactly when there is one, with
\* the trigger and the elapsed minutes of the most recent one, low wind
\* first; the row itself and the observations older than that change
\* nothing, and without an observation in the window there is no startup.
C27_WindowDecides ==
    StartupDone /\ call.row.TimeStamp # NaN =>
        LET low == InWindow(AgesWithLowWind, POST_LOW_WIND_MINUTES)
            alarm == InWindow(AgesWithAlarm, POST_ALARM_MINUTES)
        IN /\ call.value.is_startup <=> (low # {} \/ alarm # {})
           /\ call.value.trigger = IF low # {} THEN "POST_LOW_WIND"
                                    ELSE IF alarm # {} THEN "POST_ALARM"
                                    ELSE "None"
           /\ low # {} => call.value.reason.a = Youngest(low)
           /\ low = {} /\ alarm # {} => call.value.reason.a = Youngest(alarm)
           /\ (\A o \in Observations : AgeOf(o) <= 0 \/ AgeOf(o) > LOOKBACK_MINUTES)
                 => ~call.value.is_startup

\* A row with low wind itself, and with low wind and an alarm between 20 and
\* 30 minutes before it, was found to be no startup.
C27_Witness ==
    /\ StartupDone /\ call.row.TimeStamp # NaN
    /\ call.row.wtc_AcWindSp_mean < CUT_IN_WIND_SPEED
    /\ \E a \in AgesWithLowWind : POST_LOW_WIND_MINUTES < a /\ a <= LOOKBACK_MINUTES
    /\ \E a \in AgesWithAlarm : POST_LOW_WIND_MINUTES < a /\ a <= LOOKBACK_MINUTES
    /\ ~call.value.is_startup

\* ---- C28: no startup condition behind rules 8 and 9
LateResults ==
    {Subcategory("SUSPECTED_LOW_WIND"), Subcategory("MECHANICAL_CONTROL_ISSUE")}

\* Row k of the classified frame is an observation of the turbine of row i
\* that is more than 0 and at most n minutes older.
Within(k, i, n) ==
    /\ InRows[k].StationId = InRows[i].StationId
    /\ InRows[k].TimeStamp # NaN /\ InRows[i].TimeStamp # NaN
    /\ 0 < InRows[i].TimeStamp - InRows[k].TimeStamp
    /\ InRows[i].TimeStamp - InRows[k].TimeStamp <= n

\* No low wind in the last 20 minutes and no alarm in the last 15 minutes
\* before a row that rule 8 or rule 9 classified.
NoStartupBehind ==
    /\ call.op = "_classify_single_timestamp" /\ call.row.TimeStamp # NaN
          /\ call.value.subcategory \in LateResults =>
          /\ InWindow(AgesWithLowWind, POST_LOW_WIND_MINUTES) = {}
          /\ InWindow(AgesWithAlarm, POST_ALARM_MINUTES) = {}
    /\ CallReturned =>
          \A i, k \in 1..Len(InRows) :
              OutRows[i].state_subcategory \in LateResults =>
                  /\ ~(/\ Within(k, i, POST_LOW_WIND_MINUTES)
                        /\ InRows[k].wtc_AcWindSp_mean # NaN
                        /\ InRows[k].wtc_AcWindSp_mean < CUT_IN_WIND_SPEED)
                  /\ ~(/\ Within(k, i, POST_ALARM_MINUTES)
                        /\ InRows[k].EffectiveAlarmTime # NaN
                        /\ InRows[k].EffectiveAlarmTime > 0)

\* Rows i and i + 1 of the classified frame, which is sorted by turbine and
\* time, are observations of one turbine at most 20 minutes apart.
Consecutive(i) ==
    /\ InRows[i].StationId # NoId
    /\ InRows[i + 1].StationId = InRows[i].StationId
    /\ InRows[i].TimeStamp # NaN /\ InRows[i + 1].TimeStamp # NaN
    /\ InRows[i + 1].TimeStamp - InRows[i].TimeStamp <= POST_LOW_WIND_MINUTES

NotSuspectedTwice(i) ==
    OutRows[i].state_subcategory = Subcategory("SUSPECTED_LOW_WIND") =>
        OutRows[i + 1].state_subcategory \notin LateResults

\* C28: a row classified Suspected Low Wind or Suspected Mechanical/Control
\* Issue has no observation of its turbine with low wind in the 20 minutes
\* before it and none with an alarm in the 15 minutes before it; and of two
\* consecutive observations of a turbine at most 20 minutes apart, the one
\* that follows a Suspected Low Wind row is neither.
C28_NoSuspicionAfterLowWind ==
    /\ NoStartupBehind
    /\ CallReturned =>
          \A i \in 1..(Len(InRows) - 1) : Consecutive(i) => NotSuspectedTwice(i)

\* C28 for consecutive observations at different times.
C28_NoSuspicionAfterLowWindLater ==
    /\ NoStartupBehind
    /\ CallReturned =>
          \A i \in 1..(Len(InRows) - 1) :
              Consecutive(i) /\ InRows[i].TimeStamp < InRows[i + 1].TimeStamp =>
                  NotSuspectedTwice(i)

\* A Suspected Low Wind row was followed 20 minutes later by a row that the
\* startup rule classified.
C28_Witness ==
    /\ CallReturned
    /\ \E i \in 1..(Len(InRows) - 1) :
          /\ Consecutive(i)
          /\ InRows[i + 1].TimeStamp - InRows[i].TimeStamp = POST_LOW_WIND_MINUTES
          /\ OutRows[i].state_subcategory = Subcategory("SUSPECTED_LOW_WIND")
          /\ OutRows[i + 1].state_subcategory = Subcategory("STARTUP_POST_LOW_WIND")

\* ---- C30: a failed load
LoadDone == call.op = "load_pkl_data"

LoaderKept ==
    /\ loader.data = call.before.data
    /\ loader.data_loaded = call.before.data_loaded

\* The stored dataset is the preprocessed dataset of the most recent
\* successful load.
HoldsLastLoad ==
    /\ loader.data = call.loaded
    /\ loader.data.derived /\ loader.data.ts_dtype = "datetime"

\* C30: a call of load_pkl_data that returns failure leaves the stored
\* dataset and data_loaded as they were, and whenever data_loaded is true
\* the stored dataset is the validated and preprocessed dataset of the most
\* recent successful load.
C30_FailedLoadKeepsData ==
    LoadDone =>
        /\ ~call.success => LoaderKept
        /\ loader.data_loaded => HoldsLastLoad

\* C30 for the other outcomes: a load that fails before the frame is stored
\* (no file, a wrong extension, a pickle that cannot be read or holds no
\* table, missing columns) leaves the loader as it was, and a load that
\* succeeds stores its preprocessed dataset.
C30_RejectedLoadKeepsData ==
    LoadDone =>
        /\ ~call.success /\ call.message.kind # "data_preprocessing_failed" => LoaderKept
        /\ call.success => loader.data_loaded /\ HoldsLastLoad

\* A load failed for missing columns after a successful load, and the
\* dataset of that load is still stored.
C30_Witness ==
    /\ LoadDone /\ ~call.success
    /\ call.message.kind = "missing_required_columns"
    /\ call.before.data_loaded
    /\ LoaderKept /\ HoldsLastLoad

====
